---- MODULE Spec2Model ----
(***************************************************************************)
(* Sarang: mood analysis and recommendation request paths.                 *)
(*                                                                         *)
(*   server/services/sentimentService.js   analyzeSentiment, moodCache     *)
(*   server/controllers/moodController.js  analyzeMoodSentiment,           *)
(*                                         clearSentimentCache             *)
(*   client Home page                      handleAnalyzeMood,              *)
(*                                         handleGetRecommendations        *)
(*   server/utils/runPython                runPythonScript and helpers     *)
(*   server/services/recommendationService generateRecommendations         *)
(*   server/controllers/playlistController generatePlaylist,               *)
(*                                         createMoodPlaylist,             *)
(*                                         getUserPreferenceTracks         *)
(*   server/controllers/moodController.js  logMood                         *)
(*   server/services/sentimentService.js   production start-up script      *)
(*                                                                         *)
(* Mood texts are sequences of one-character strings, error messages are   *)
(* sequences of their parts.  Real numbers (scores, confidences) are       *)
(* integers in thousandths.  Time is in seconds.                           *)
(***************************************************************************)
EXTENDS Integers, Sequences, FiniteSets, TLC

VARIABLES
    now,        \* wall clock (Date.now()), seconds
    svc,        \* state of the external mood service on port 5001
    cache,      \* moodCache: key -> [v, t] (+ bookkeeping of the insert)
    pc,         \* position of each POST /api/mood/analyze round trip
    text,       \* moodText the Home page submitted
    calls,      \* requests the server sent to the mood service for this call,
                \* and what its cache lookup found
    result,     \* how analyzeSentiment settled for this call
    response,   \* HTTP response of analyzeMoodSentiment
    sentiment,  \* Home page state `sentiment`
    navigated,  \* router state handed to /recommendations
    rpc,        \* position of each POST /api/playlist/generate request
    rtext,      \* its moodText
    mood,       \* moodAnalysis held by runPythonScript
    rcalls,     \* classifier requests and subprocesses started for it, and
                \* what its subprocess printed
    rresponse,  \* HTTP response of generatePlaylist
    served,     \* mood texts the recommend path has answered successfully
    cleared,    \* clearCache has run and nothing was stored since
    analysis,   \* moodAnalysis handed to getRecommendationsFromMood
    targets,    \* the object getRecommendationsFromMood returned
    script,         \* production start-up script: the script's own process
    launch,         \* ... position of its top level
    pythonService,  \* ... the child process spawned by startPythonService
    pythonExit,     \* ... the code of its 'exit' event
    pythonReady,    \* ... the flag pythonReady
    readyChunks,    \* ... stdout chunks seen that contain the ready message
    readyTimers,    \* ... pending setTimeout(startNodeServer, 1000)
    fallbackTimer,  \* ... the 15 s timer of startPythonService
    nodeStarts,     \* ... number of startNodeServer invocations
    nodeServers,    \* ... the `node app.js` children, in the order spawned;
                    \*     process.nodeServer is the last one
    pythonSigterm,  \* ... the Python child has been sent SIGTERM
    prodSignals,    \* ... SIGINT/SIGTERM received by the script
    shutdownTimers, \* ... pending setTimeout(process.exit(0), 3000)
    starterScript,      \* two-service start script: the script's own process
    starterClock,       \* ... seconds since the script started
    starterPython,      \* ... its child `python mood_service.py`
    starterTimer,       \* ... the 3 s timer that starts app.js
    starterNode,        \* ... its child `node app.js`, with the state the
                        \*     Python service had when it was spawned
    starterExitTimers,  \* ... pending setTimeout(process.exit(0), 2000)
    mpPc,           \* createMoodPlaylist: position of the handler
    mpTracks,       \* ... req.body.tracks
    mpI,            \* ... loop index i (from 1)
    trackUris,      \* ... the array trackUris
    mpCreated,      \* ... track URIs handed to createPlaylistForMood
    mpInserted,     \* ... rows inserted into user_playlists
    mpResponse,     \* ... the HTTP response
    analyzeInput,   \* analyzeMoodSentiment: what analyzeSentiment resolved with
    analyzeOutput,  \* ... the body it sent
    preferenceTracks,   \* table user_preference_tracks: rows of each user
    pfPc,               \* getUserPreferenceTracks: position of the call
    pfUser,             \* ... the user it was called for
    pfOutcome,          \* ... how its awaits settled
    pfResult,           \* ... how the call itself settled
    lmPc,           \* logMood: position of the handler
    lmBody,         \* ... req.body
    lmAnalyzed,     \* ... analyzeSentiment calls it made
    lmScore,        \* ... finalSentimentScore
    lmRow,          \* ... the row it inserted into the moods table
    lmResponse,     \* ... the HTTP response
    gpPc,           \* generatePlaylist with its insert: position of the handler
    gpReq,          \* ... req.auth.userId and req.body.moodText
    gpPlaylist,     \* ... the result of generateRecommendations
    gpInsert,       \* ... how the insert into playlists settled
    gpRow,          \* ... the row stored in playlists
    gpSent          \* ... the responses sent, in order

recVars == <<rpc, rtext, mood, rcalls, rresponse, served>>

coreVars == <<now, svc, cache, pc, text, calls, result, response, sentiment, navigated,
              rpc, rtext, mood, rcalls, rresponse, served, cleared>>

targetVars == <<analysis, targets>>

prodVars == <<script, launch, pythonService, pythonExit, pythonReady, readyChunks, readyTimers,
              fallbackTimer, nodeStarts, nodeServers, pythonSigterm, prodSignals,
              shutdownTimers>>

starterVars == <<starterScript, starterClock, starterPython, starterTimer, starterNode,
                 starterExitTimers>>

mpVars == <<mpPc, mpTracks, mpI, trackUris, mpCreated, mpInserted, mpResponse>>

normVars == <<analyzeInput, analyzeOutput>>

pfVars == <<preferenceTracks, pfPc, pfUser, pfOutcome, pfResult>>

lmVars == <<lmPc, lmBody, lmAnalyzed, lmScore, lmRow, lmResponse>>

gpVars == <<gpPc, gpReq, gpPlaylist, gpInsert, gpRow, gpSent>>

\* state of the operations that run outside the two request paths
auxVars == <<targetVars, prodVars, starterVars, mpVars, normVars, pfVars, lmVars, gpVars>>

\* everything but the state of one of these operations
notTargets == <<coreVars, prodVars, starterVars, mpVars, normVars, pfVars, lmVars, gpVars>>
notProd == <<coreVars, targetVars, starterVars, mpVars, normVars, pfVars, lmVars, gpVars>>
notStarter == <<coreVars, targetVars, prodVars, mpVars, normVars, pfVars, lmVars, gpVars>>
notMp == <<coreVars, targetVars, prodVars, starterVars, normVars, pfVars, lmVars, gpVars>>
notNorm == <<coreVars, targetVars, prodVars, starterVars, mpVars, pfVars, lmVars, gpVars>>
notGp == <<coreVars, targetVars, prodVars, starterVars, mpVars, normVars, pfVars, lmVars>>
notLm == <<coreVars, targetVars, prodVars, starterVars, mpVars, normVars, pfVars, gpVars>>
notPf == <<coreVars, targetVars, prodVars, starterVars, mpVars, normVars, lmVars, gpVars>>

vars == <<coreVars, auxVars>>

----------------------------------------------------------------------------
(* Bounds of the model *)

TickSeconds == 2000
MaxTicks == 2

\* signals delivered to a start-up script after its handlers are registered
MaxSignals == 2

\* the callers of POST /api/mood/analyze: the Home page and one other client
Home == "home"
Reqs == {Home, "api"}

Texts ==
    { <<"H", "i">>,
      <<" ", "h", "i", " ">>,
      <<"h", " ", "i">> }

----------------------------------------------------------------------------
(* JavaScript values *)

\* A value that may be undefined/null is a sequence of length at most one.
Undef == << >>
Some(v) == <<v>>

\* truthiness of a possibly undefined number / string / object
TruthyNum(x) == x # Undef /\ x[1] # 0
TruthyStr(x) == x # Undef /\ x[1] # ""
TruthyObj(x) == x # Undef

Min(a, b) == IF a < b THEN a ELSE b
Max(a, b) == IF a > b THEN a ELSE b
Abs(a) == IF a < 0 THEN -a ELSE a

----------------------------------------------------------------------------
(* String.prototype.toLowerCase and String.prototype.trim *)

CaseMap == [H |-> "h", I |-> "i", S |-> "s", A |-> "a", D |-> "d"]

WhiteSpace == {" ", "\t", "\n"}

LowerChar(c) == IF c \in DOMAIN CaseMap THEN CaseMap[c] ELSE c

toLowerCase(s) == [i \in 1..Len(s) |-> LowerChar(s[i])]

RECURSIVE trimStart(_)
trimStart(s) ==
    IF s # <<>> /\ Head(s) \in WhiteSpace THEN trimStart(Tail(s)) ELSE s

RECURSIVE trimEnd(_)
trimEnd(s) ==
    IF s # <<>> /\ s[Len(s)] \in WhiteSpace
    THEN trimEnd(SubSeq(s, 1, Len(s) - 1))
    ELSE s

trim(s) == trimEnd(trimStart(s))

\* variant: the key is trimmed but keeps its letter case
cacheKeyNoLowerCase(t) == <<"m", "o", "o", "d", ":">> \o trim(t)

cacheKey(t) == <<"m", "o", "o", "d", ":">> \o trim(toLowerCase(t))

----------------------------------------------------------------------------
(* node-cache instance: new NodeCache({ stdTTL: 3600 }) *)

stdTTL == 3600

\* _check: an entry whose expiry lies in the past is dead
Expired(e) == e.t # 0 /\ e.t < now

cacheDel(c, k) == [x \in (DOMAIN c) \ {k} |-> c[x]]

\* variant: a lookup that never finds anything
cacheGetAlwaysMiss(k) == Undef

\* variant: a lookup that returns whatever entry the cache holds
cacheGetAnyKey(k) ==
    IF DOMAIN cache # {}
    THEN Some(cache[CHOOSE x \in DOMAIN cache : TRUE].v)
    ELSE Undef

\* get: value of a live entry, undefined otherwise
cacheGet(k) ==
    IF k \in DOMAIN cache /\ ~Expired(cache[k]) THEN Some(cache[k].v) ELSE Undef

\* variant: a read of a live entry restarts its time to live
cacheAfterGetTouch(k) ==
    IF k \in DOMAIN cache
    THEN IF Expired(cache[k]) THEN cacheDel(cache, k)
         ELSE [cache EXCEPT ![k].t = now + stdTTL]
    ELSE cache

\* get deletes the entry it finds expired and touches nothing else
cacheAfterGet(k) ==
    IF k \in DOMAIN cache /\ Expired(cache[k]) THEN cacheDel(cache, k) ELSE cache

\* variant: a capacity of one entry, an insert of a new key evicts the rest
cacheSetEvicting(c, k, v, src) ==
    [x \in {k} |->
        [v |-> v, t |-> now + stdTTL, insertedAt |-> now, srcText |-> src]]

\* variant: the result is returned without being stored
cacheSetForgets(c, k, v, src) == c

\* set: the entry of k is (re)written with expiry now + stdTTL; no other key
\* is touched (maxKeys is left at its default, unlimited)
cacheSet(c, k, v, src) ==
    [x \in (DOMAIN c) \cup {k} |->
        IF x = k
        THEN [v |-> v, t |-> now + stdTTL, insertedAt |-> now, srcText |-> src]
        ELSE c[x]]

\* variant: a flush that leaves the entries in place
flushAllKeeps == cache

flushAll == << >>

\* the keys the bounded inputs can produce
AllKeys == {cacheKey(t) : t \in Texts}

----------------------------------------------------------------------------
(* The external mood service and node-fetch *)

\* the service on port 5001 either answers the requests it receives or
\* leaves them without any answer
ServiceStates == {"answering", "silent"}

\* what an answering service sends back
Answers == {"ok", "error_status", "malformed", "refused"}

\* a number and an array, for a property that may hold either
Num(n) == [kind |-> "number", n |-> n]
Arr(items) == [kind |-> "array", items |-> items]

\* the audio features getRecommendationsFromMood reads from audio_targets
Features == {"valence", "energy", "danceability", "tempo", "loudness", "acousticness"}

ClassifierResults ==
    { [sentiment_score |-> Some(800), primary_emotion |-> Some("joy"),
       confidence |-> Some(912), audio_targets |-> Undef],
      [sentiment_score |-> Some(-800), primary_emotion |-> Some("sadness"),
       confidence |-> Some(856),
       audio_targets |-> Some([valence |-> Some(Arr(<<200, 400>>)),
                               energy |-> Some(Num(300)),
                               danceability |-> Undef,
                               tempo |-> Some(Num(80000)),
                               loudness |-> Undef,
                               acousticness |-> Some(Num(700))])] }

HEALTH_TIMEOUT == 3000
SERVICE_TIMEOUT == 15000

\* a fetch promise settles once the service answers or refuses; against a
\* service that stays silent only the timeout option settles it
\* variant: a fetch without a working timeout
fetchSettlesNoTimeout(state, timeout) == state # "silent"

fetchSettles(state, timeout) == state # "silent" \/ timeout > 0

\* what the settled fetch saw: the answer, or the timeout's rejection
fetchOutcomes(state) == IF state = "silent" THEN {"timeout"} ELSE Answers

\* checkServiceHealth: true only for a parsed body with status 'healthy';
\* every rejection (timeout, refusal, unparsable body) is caught -> false
checkServiceHealth(outcome) == outcome = "ok"

\* analyzeUltraAdvanced / analyzeMoodUltraAdvanced: resolves only on a 2xx
\* answer with a parsable body
analyzeResolves(outcome) == outcome = "ok"

\* analyzeUltraAdvanced: the object built from the service's JSON
analyzeUltraAdvanced(res) ==
    [ sentiment_score |-> res.sentiment_score,
      confidence |-> res.confidence,
      primary_emotion |-> res.primary_emotion,
      score |-> res.sentiment_score,
      label |-> res.primary_emotion ]

\* analyzeSentiment: fields added before the result is cached and returned
markUltraAdvanced(res) ==
    [ sentiment_score |-> res.sentiment_score,
      confidence |-> res.confidence,
      primary_emotion |-> res.primary_emotion,
      score |-> res.score,
      label |-> res.label,
      ultra_advanced |-> TRUE,
      method |-> "ultra_advanced_ai",
      accuracy_level |-> "95%+" ]

ErrAnalyzeFailed == "High-accuracy sentiment analysis service unavailable"
ErrNotRunning == "High-accuracy sentiment analysis service not running on port 5001"

Resolved(v) == [ok |-> TRUE, value |-> v]
Rejected(msg) == [ok |-> FALSE, error |-> msg]
Pending == [pending |-> TRUE]

----------------------------------------------------------------------------
(* moodController.analyzeMoodSentiment: the response built from a settled   *)
(* analyzeSentiment                                                        *)

\* Math.round(confidence * 100) / 100 on thousandths
RoundHundredths(c) == ((c + 5) \div 10) * 10

StandardLabel(s) ==
    IF s < -600 THEN "Very Low"
    ELSE IF s < -300 THEN "Low"
    ELSE IF s < -100 THEN "Slightly Low"
    ELSE IF s < 100 THEN "Neutral"
    ELSE IF s < 300 THEN "Slightly Happy"
    ELSE IF s < 600 THEN "Happy"
    ELSE "Very Happy"

\* variant: the body passes the classifier's fields on under their own names
SuccessBodyClassifierFields(sr) ==
    [ primary_emotion |-> sr.primary_emotion,
      sentiment_score |-> sr.sentiment_score,
      confidence |-> sr.confidence ]

\* variant: the score is passed on as the classifier gave it
normalizedScoreUnclamped(sentimentScore) == sentimentScore

\* Math.max(-1, Math.min(1, sentimentScore))
normalizedScore(sentimentScore) == Max(-1000, Min(1000, sentimentScore))

SuccessBody(sr) ==
    IF sr.sentiment_score # Undef
    THEN LET sentimentScore == sr.sentiment_score[1]
             confidence == IF TruthyNum(sr.confidence) THEN sr.confidence[1] ELSE 800
             label == IF TruthyStr(sr.primary_emotion) THEN sr.primary_emotion[1]
                      ELSE IF sentimentScore > 0 THEN "positive" ELSE "negative"
         IN [ score |-> normalizedScore(sentimentScore),
              label |-> label,
              confidence |-> RoundHundredths(confidence),
              enhanced_ai |-> TRUE,
              accuracy_level |-> "High (AI-First)" ]
    ELSE LET sentimentScore == 0
             confidence == Min(950, 700 + (Abs(sentimentScore) * 250) \div 1000)
         IN [ score |-> normalizedScore(sentimentScore),
              label |-> StandardLabel(sentimentScore),
              confidence |-> RoundHundredths(confidence),
              enhanced_ai |-> TRUE,
              accuracy_level |-> "High (AI-First)" ]

analyzeMoodSentimentResponse(res) ==
    IF res.ok
    THEN [status |-> 200, body |-> SuccessBody(res.value)]
    ELSE [status |-> 500,
          body |-> [error |-> <<"Failed to analyze sentiment: ", res.error>>,
                    fallback_available |-> TRUE]]

----------------------------------------------------------------------------
(* Home page *)

mockSentiments ==
    { [score |-> -700, label |-> "Low", confidence |-> 850],
      [score |-> -300, label |-> "Calm", confidence |-> 780],
      [score |-> 100, label |-> "Neutral", confidence |-> 820],
      [score |-> 500, label |-> "Happy", confidence |-> 910],
      [score |-> 800, label |-> "Excited", confidence |-> 870] }

NoCalls == [health |-> 0, analyze |-> 0, lookup |-> "none"]

\* the requests of POST /api/playlist/generate
RecReqs == {"p1", "p2"}

\* the users of the requests that carry a user id
PrefUsers == {"u1", "u2"}

NoRecCalls ==
    [classify |-> 0, spawn |-> 0, fallback |-> 0, repeat |-> FALSE, printed |-> Undef]

----------------------------------------------------------------------------
(* runPython: runPythonScript and the moodBasedRecs.py subprocess          *)

TrackList == <<"track_a", "track_b">>

List(items) == [kind |-> "list", items |-> items]

\* what a moodBasedRecs.py run that exits with code 0 may print, parsed
PyOutputs ==
    { [error |-> Undef, recommendations |-> Some(List(TrackList)), tracks |-> Undef],
      [error |-> Undef, recommendations |-> Some(List(<< >>)), tracks |-> Undef],
      [error |-> Some("No songs found"), recommendations |-> Undef, tracks |-> Undef] }

\* how a subprocess that closes can close
CloseOutcomes == {"json", "nonzero_exit", "invalid_json"}

\* truthiness of a possibly undefined number-or-array
TruthyVal(x) == x # Undef /\ (x[1].kind = "array" \/ x[1].n # 0)

\* a || b
Or(a, b) == IF TruthyVal(a) THEN a ELSE b

\* x?.[0]: the first element of an array, undefined for a number, for an
\* empty array and for undefined
ElementZero(x) ==
    IF x # Undef /\ x[1].kind = "array" /\ x[1].items # << >>
    THEN Some(Num(x[1].items[1]))
    ELSE Undef

\* moodAnalysis.audio_targets || {}
audioTargetsOf(moodAnalysis) ==
    IF TruthyObj(moodAnalysis.audio_targets)
    THEN moodAnalysis.audio_targets[1]
    ELSE [f \in Features |-> Undef]

\* audioTargets.f?.[0] || audioTargets.f || dflt
targetOf(audioTargets, f, dflt) ==
    Or(Or(ElementZero(audioTargets[f]), audioTargets[f]), Some(Num(dflt)))[1]

\* variant: every feature falls back to 0.5
getRecommendationsFromMoodUnitDefaults(moodAnalysis) ==
    LET audioTargets == audioTargetsOf(moodAnalysis)
    IN [ kind |-> "targets",
         target_valence |-> targetOf(audioTargets, "valence", 500),
         target_energy |-> targetOf(audioTargets, "energy", 500),
         target_danceability |-> targetOf(audioTargets, "danceability", 500),
         target_tempo |-> targetOf(audioTargets, "tempo", 500),
         target_loudness |-> targetOf(audioTargets, "loudness", 500),
         target_acousticness |-> targetOf(audioTargets, "acousticness", 500),
         mood_context |-> moodAnalysis.primary_emotion,
         confidence |-> moodAnalysis.confidence,
         sentiment_score |-> moodAnalysis.sentiment_score ]

\* getRecommendationsFromMood: the audio-target object
getRecommendationsFromMood(moodAnalysis) ==
    LET audioTargets == audioTargetsOf(moodAnalysis)
    IN [ kind |-> "targets",
         target_valence |-> targetOf(audioTargets, "valence", 500),
         target_energy |-> targetOf(audioTargets, "energy", 500),
         target_danceability |-> targetOf(audioTargets, "danceability", 500),
         target_tempo |-> targetOf(audioTargets, "tempo", 120000),
         target_loudness |-> targetOf(audioTargets, "loudness", -10000),
         target_acousticness |-> targetOf(audioTargets, "acousticness", 500),
         mood_context |-> moodAnalysis.primary_emotion,
         confidence |-> moodAnalysis.confidence,
         sentiment_score |-> moodAnalysis.sentiment_score ]

\* runPythonScript, try branch: result after getRecommendationsFromPython
\* resolved with `parsed`
pythonResult(moodAnalysis, parsed) ==
    [ mood_analysis |-> Some(moodAnalysis),
      recommendations |-> parsed.recommendations,
      tracks |-> Undef,
      error |-> Undef,
      method |-> Some("python_with_ultra_advanced_mood"),
      sentiment_score |-> moodAnalysis.sentiment_score,
      primary_emotion |-> moodAnalysis.primary_emotion,
      confidence |-> moodAnalysis.confidence ]

\* runPythonScript, inner catch: result after getRecommendationsFromPython
\* rejected
audioTargetResult(moodAnalysis) ==
    [ mood_analysis |-> Some(moodAnalysis),
      recommendations |-> Some(getRecommendationsFromMood(moodAnalysis)),
      tracks |-> Undef,
      error |-> Undef,
      method |-> Some("audio_targets_from_ultra_advanced"),
      sentiment_score |-> moodAnalysis.sentiment_score,
      primary_emotion |-> moodAnalysis.primary_emotion,
      confidence |-> moodAnalysis.confidence ]

\* runOriginalPythonScript resolves with the parsed output as it is
originalResult(parsed) ==
    [ mood_analysis |-> Undef,
      recommendations |-> parsed.recommendations,
      tracks |-> parsed.tracks,
      error |-> parsed.error,
      method |-> Undef,
      sentiment_score |-> Undef,
      primary_emotion |-> Undef,
      confidence |-> Undef ]

\* recommendationService.generateRecommendations: a result carrying `error`
\* is turned into a rejection, everything else is passed on
generateRecommendations(res) ==
    IF res.ok /\ TruthyStr(res.value.error)
    THEN Rejected(<<"Python script failed: ", res.value.error[1]>>)
    ELSE res

\* variant: an empty recommendations list is refused like a missing one
generatePlaylistResponseNonEmpty(res) ==
    IF ~res.ok
    THEN [status |-> 500, body |-> [error |-> res.error]]
    ELSE IF \/ ~TruthyObj(res.value.recommendations) /\ ~TruthyObj(res.value.tracks)
            \/ res.value.recommendations = Some(List(<< >>))
    THEN [status |-> 500,
          body |-> [error |-> <<"No recommendations generated from Python service">>]]
    ELSE [status |-> 200, body |-> res.value]

\* playlistController.generatePlaylist: the response for a settled
\* generateRecommendations
generatePlaylistResponse(res) ==
    IF ~res.ok
    THEN [status |-> 500, body |-> [error |-> res.error]]
    ELSE IF ~TruthyObj(res.value.recommendations) /\ ~TruthyObj(res.value.tracks)
    THEN [status |-> 500,
          body |-> [error |-> <<"No recommendations generated from Python service">>]]
    ELSE [status |-> 200, body |-> res.value]

----------------------------------------------------------------------------
(* POST /api/mood/analyze round trip: Home.handleAnalyzeMood ->             *)
(* analyzeMoodSentiment -> analyzeSentiment -> mood service                 *)

Init ==
    /\ now = 0
    /\ svc = "answering"
    /\ cache = << >>
    /\ pc = [r \in Reqs |-> "idle"]
    /\ text = [r \in Reqs |-> << >>]
    /\ calls = [r \in Reqs |-> NoCalls]
    /\ result = [r \in Reqs |-> Pending]
    /\ response = [r \in Reqs |-> Undef]
    /\ sentiment = Undef
    /\ navigated = Undef
    /\ rpc = [q \in RecReqs |-> "idle"]
    /\ rtext = [q \in RecReqs |-> << >>]
    /\ mood = [q \in RecReqs |-> Undef]
    /\ rcalls = [q \in RecReqs |-> NoRecCalls]
    /\ rresponse = [q \in RecReqs |-> Undef]
    /\ served = {}
    /\ cleared = FALSE
    /\ analysis = Undef
    /\ targets = Undef
    /\ script = "running"
    /\ launch = "script"
    /\ pythonService = "none"
    /\ pythonExit = Undef
    /\ pythonReady = FALSE
    /\ readyChunks = 0
    /\ readyTimers = 0
    /\ fallbackTimer = "none"
    /\ nodeStarts = 0
    /\ nodeServers = << >>
    /\ pythonSigterm = FALSE
    /\ prodSignals = 0
    /\ shutdownTimers = 0
    /\ starterScript = "idle"
    /\ starterClock = 0
    /\ starterPython = "none"
    /\ starterTimer = "none"
    /\ starterNode = Undef
    /\ starterExitTimers = 0
    /\ mpPc = "idle"
    /\ mpTracks = << >>
    /\ mpI = 1
    /\ trackUris = << >>
    /\ mpCreated = Undef
    /\ mpInserted = 0
    /\ mpResponse = Undef
    /\ analyzeInput = Undef
    /\ analyzeOutput = Undef
    /\ preferenceTracks = [u \in PrefUsers |-> 0]
    /\ pfPc = "idle"
    /\ pfUser = Undef
    /\ pfOutcome = "none"
    /\ pfResult = Undef
    /\ lmPc = "idle"
    /\ lmBody = Undef
    /\ lmAnalyzed = 0
    /\ lmScore = Undef
    /\ lmRow = Undef
    /\ lmResponse = Undef
    /\ gpPc = "idle"
    /\ gpReq = Undef
    /\ gpPlaylist = Undef
    /\ gpInsert = "none"
    /\ gpRow = Undef
    /\ gpSent = << >>

\* analyzeSentiment settles and analyzeMoodSentiment answers in the same turn
Settle(r, res) ==
    /\ result' = [result EXCEPT ![r] = res]
    /\ response' = [response EXCEPT ![r] = Some(analyzeMoodSentimentResponse(res))]
    /\ pc' = [pc EXCEPT ![r] = "responded"]

\* what a lookup that misses found: an entry past its expiry, a flushed
\* cache, or no entry
Lookup(k) ==
    IF k \in DOMAIN cache THEN "expired"
    ELSE IF cleared THEN "cleared"
    ELSE "absent"

\* The Home page posts the text; the handler calls analyzeSentiment, which
\* looks the key up and either returns the cached result or starts the
\* health check.
handleAnalyzeMood(r, t) ==
    /\ pc[r] = "idle"
    /\ trim(t) # << >>
    /\ text' = [text EXCEPT ![r] = t]
    /\ LET cachedResult == cacheGet(cacheKey(t))
       IN /\ cache' = cacheAfterGet(cacheKey(t))
          /\ IF TruthyObj(cachedResult)
             THEN /\ Settle(r, Resolved(cachedResult[1]))
                  /\ calls' = [calls EXCEPT ![r] = [health |-> 0, analyze |-> 0,
                                                    lookup |-> "hit"]]
             ELSE /\ pc' = [pc EXCEPT ![r] = "health"]
                  /\ calls' = [calls EXCEPT ![r] = [health |-> 1, analyze |-> 0,
                                                    lookup |-> Lookup(cacheKey(t))]]
                  /\ result' = [result EXCEPT ![r] = Pending]
                  /\ response' = [response EXCEPT ![r] = Undef]
    /\ UNCHANGED <<now, svc, sentiment, navigated, cleared, recVars, auxVars>>

\* The /health fetch settles: healthy -> POST /analyze is sent, otherwise
\* analyzeSentiment throws.
checkServiceHealthSettle(r) ==
    /\ pc[r] = "health"
    /\ fetchSettles(svc, HEALTH_TIMEOUT)
    /\ \E o \in fetchOutcomes(svc) :
         IF checkServiceHealth(o)
         THEN /\ pc' = [pc EXCEPT ![r] = "analyze"]
              /\ calls' = [calls EXCEPT ![r].analyze = @ + 1, ![r].lookup = "miss"]
              /\ UNCHANGED <<result, response>>
         ELSE /\ Settle(r, Rejected(ErrNotRunning))
              /\ calls' = [calls EXCEPT ![r].lookup = "miss"]
    /\ UNCHANGED <<now, svc, cache, text, sentiment, navigated, cleared, recVars, auxVars>>

\* variant: the failed /analyze request is sent once more
analyzeSentimentCatchRetry(r) ==
    /\ calls' = [calls EXCEPT ![r].analyze = @ + 1]
    /\ UNCHANGED <<pc, result, response, cache, cleared>>

\* variant: after a failed /analyze request a fallback analysis supplies a
\* result
analyzeSentimentCatchFallback(r) ==
    /\ \E raw \in ClassifierResults :
          Settle(r, Resolved(markUltraAdvanced(analyzeUltraAdvanced(raw))))
    /\ UNCHANGED <<cache, calls, cleared>>

\* variant: the failure is rethrown, but a neutral result is left in the cache
analyzeSentimentCatchCaches(r) ==
    /\ Settle(r, Rejected(ErrAnalyzeFailed))
    /\ cache' = cacheSet(cache, cacheKey(text[r]),
                         markUltraAdvanced(analyzeUltraAdvanced(
                             [sentiment_score |-> Some(0), confidence |-> Undef,
                              primary_emotion |-> Some("neutral")])),
                         text[r])
    /\ cleared' = FALSE
    /\ UNCHANGED calls

\* analyzeSentiment, catch around analyzeUltraAdvanced: the failure is
\* rethrown, nothing is cached and nothing else is tried
analyzeSentimentCatch(r) ==
    /\ Settle(r, Rejected(ErrAnalyzeFailed))
    /\ UNCHANGED <<cache, calls, cleared>>

\* The /analyze fetch settles: the result is cached and returned, or
\* analyzeSentiment throws.
analyzeUltraAdvancedSettle(r) ==
    /\ pc[r] = "analyze"
    /\ fetchSettles(svc, SERVICE_TIMEOUT)
    /\ \E o \in fetchOutcomes(svc) :
         IF analyzeResolves(o)
         THEN \E raw \in ClassifierResults :
                LET res == markUltraAdvanced(analyzeUltraAdvanced(raw))
                IN /\ cache' = cacheSet(cache, cacheKey(text[r]), res, text[r])
                   /\ cleared' = FALSE
                   /\ Settle(r, Resolved(res))
                   /\ UNCHANGED calls
         ELSE analyzeSentimentCatch(r)
    /\ UNCHANGED <<now, svc, text, sentiment, navigated, recVars, auxVars>>

\* The Home page receives the response: the body becomes `sentiment`, or on a
\* non-2xx answer the catch block picks one of the mock sentiments.
handleAnalyzeMoodReceive ==
    /\ pc[Home] = "responded"
    /\ pc' = [pc EXCEPT ![Home] = "settled"]
    /\ IF response[Home][1].status = 200
       THEN sentiment' = Some(response[Home][1].body)
       ELSE \E m \in mockSentiments : sentiment' = Some(m)
    /\ UNCHANGED <<now, svc, cache, text, calls, result, response, navigated, cleared, recVars, auxVars>>

handleGetRecommendations ==
    /\ pc[Home] = "settled"
    /\ TruthyObj(sentiment)
    /\ navigated = Undef
    /\ navigated' = Some([sentiment |-> sentiment[1], moodText |-> text[Home]])
    /\ UNCHANGED <<now, svc, cache, pc, text, calls, result, response, sentiment, cleared, recVars, auxVars>>

Forget(r) ==
    /\ pc' = [pc EXCEPT ![r] = "idle"]
    /\ text' = [text EXCEPT ![r] = << >>]
    /\ calls' = [calls EXCEPT ![r] = NoCalls]
    /\ result' = [result EXCEPT ![r] = Pending]
    /\ response' = [response EXCEPT ![r] = Undef]

\* The page is left and mounted again: useState(null)
Unmount ==
    /\ pc[Home] = "settled"
    /\ Forget(Home)
    /\ sentiment' = Undef
    /\ navigated' = Undef
    /\ UNCHANGED <<now, svc, cache, cleared, recVars, auxVars>>

\* Another caller of POST /api/mood/analyze has read its response
Return(r) ==
    /\ r # Home
    /\ pc[r] = "responded"
    /\ Forget(r)
    /\ UNCHANGED <<now, svc, cache, sentiment, navigated, cleared, recVars, auxVars>>

\* POST /api/mood/clear-cache
clearSentimentCache ==
    /\ cache' = flushAll
    /\ cleared' = TRUE
    /\ UNCHANGED <<now, svc, pc, text, calls, result, response, sentiment, navigated, recVars, auxVars>>

\* node-cache's periodic check deletes the expired entries
checkData ==
    /\ \E k \in DOMAIN cache : Expired(cache[k])
    /\ cache' = [k \in {x \in DOMAIN cache : ~Expired(cache[x])} |-> cache[k]]
    /\ UNCHANGED <<now, svc, pc, text, calls, result, response, sentiment, navigated,
                   cleared, recVars, auxVars>>

Tick ==
    /\ now < MaxTicks * TickSeconds
    /\ now' = now + TickSeconds
    /\ UNCHANGED <<svc, cache, pc, text, calls, result, response, sentiment, navigated,
                   cleared, recVars, auxVars>>

ServiceChange ==
    /\ \E b \in ServiceStates \ {svc} : svc' = b
    /\ UNCHANGED <<now, cache, pc, text, calls, result, response, sentiment, navigated,
                   cleared, recVars, auxVars>>

----------------------------------------------------------------------------
(* POST /api/playlist/generate: generatePlaylist -> generateRecommendations *)
(* -> runPythonScript                                                      *)

sentVars == <<now, cache, pc, text, calls, result, response, sentiment, navigated, cleared>>

Respond(q, res) ==
    LET resp == generatePlaylistResponse(generateRecommendations(res))
    IN /\ rresponse' = [rresponse EXCEPT ![q] = Some(resp)]
       /\ rpc' = [rpc EXCEPT ![q] = "responded"]
       /\ served' = IF resp.status = 200 THEN served \cup {rtext[q]} ELSE served

\* variant: a text answered before is answered again from a memo
generatePlaylistMemoized(q, t) ==
    /\ rpc[q] = "idle"
    /\ rtext' = [rtext EXCEPT ![q] = t]
    /\ IF t \in served
       THEN /\ rpc' = [rpc EXCEPT ![q] = "responded"]
            /\ rcalls' = [rcalls EXCEPT ![q] = [classify |-> 0, spawn |-> 0,
                                                fallback |-> 0, repeat |-> TRUE,
                                                printed |-> Undef]]
            /\ rresponse' = [rresponse EXCEPT
                               ![q] = Some([status |-> 200,
                                            body |-> originalResult(
                                               [error |-> Undef,
                                                recommendations |-> Some(List(TrackList)),
                                                tracks |-> Undef])])]
       ELSE /\ rpc' = [rpc EXCEPT ![q] = "classify"]
            /\ rcalls' = [rcalls EXCEPT ![q] = [classify |-> 1, spawn |-> 0,
                                                fallback |-> 0, repeat |-> FALSE,
                                                printed |-> Undef]]
            /\ UNCHANGED rresponse
    /\ UNCHANGED <<svc, mood, served, sentVars, auxVars>>

\* runPythonScript starts: POST /analyze is sent to the mood service
generatePlaylist(q, t) ==
    /\ rpc[q] = "idle"
    /\ rpc' = [rpc EXCEPT ![q] = "classify"]
    /\ rtext' = [rtext EXCEPT ![q] = t]
    /\ rcalls' = [rcalls EXCEPT ![q] = [classify |-> 1, spawn |-> 0, fallback |-> 0,
                                        repeat |-> t \in served, printed |-> Undef]]
    /\ UNCHANGED <<svc, mood, rresponse, served, sentVars, auxVars>>

\* variant: the failure of the mood analysis fails the request
runPythonScriptCatchRethrow(q) ==
    /\ rpc' = [rpc EXCEPT ![q] = "responded"]
    /\ rresponse' = [rresponse EXCEPT
                       ![q] = Some([status |-> 500, body |-> [error |-> <<"fetch failed">>]])]
    /\ UNCHANGED <<rcalls, served>>

\* runPythonScript, outer catch: the mood analysis threw, so
\* runOriginalPythonScript spawns moodBasedRecs.py with { mood, preferences }
runPythonScriptCatch(q) ==
    /\ rpc' = [rpc EXCEPT ![q] = "fallback"]
    /\ rcalls' = [rcalls EXCEPT ![q].spawn = @ + 1, ![q].fallback = @ + 1]
    /\ UNCHANGED <<rresponse, served>>

\* The /analyze fetch of analyzeMoodUltraAdvanced settles: with an analysis
\* getRecommendationsFromPython spawns moodBasedRecs.py, otherwise the outer
\* catch runs
analyzeMoodUltraAdvancedSettle(q) ==
    /\ rpc[q] = "classify"
    /\ fetchSettles(svc, SERVICE_TIMEOUT)
    /\ \E o \in fetchOutcomes(svc) :
         IF analyzeResolves(o)
         THEN \E raw \in ClassifierResults :
                /\ mood' = [mood EXCEPT ![q] = Some(raw)]
                /\ rpc' = [rpc EXCEPT ![q] = "python"]
                /\ rcalls' = [rcalls EXCEPT ![q].spawn = @ + 1]
                /\ UNCHANGED <<rresponse, served>>
         ELSE /\ runPythonScriptCatch(q)
              /\ UNCHANGED mood
    /\ UNCHANGED <<svc, rtext, sentVars, auxVars>>

\* The subprocess of getRecommendationsFromPython closes
getRecommendationsFromPythonClose(q) ==
    /\ rpc[q] = "python"
    /\ \E c \in CloseOutcomes :
         IF c = "json"
         THEN \E parsed \in PyOutputs :
                /\ Respond(q, Resolved(pythonResult(mood[q][1], parsed)))
                /\ rcalls' = [rcalls EXCEPT ![q].printed = Some(parsed)]
         ELSE /\ Respond(q, Resolved(audioTargetResult(mood[q][1])))
              /\ UNCHANGED rcalls
    /\ UNCHANGED <<svc, rtext, mood, sentVars, auxVars>>

\* The subprocess of runOriginalPythonScript closes
runOriginalPythonScriptClose(q) ==
    /\ rpc[q] = "fallback"
    /\ \E c \in CloseOutcomes :
         IF c = "json"
         THEN \E parsed \in PyOutputs :
                /\ Respond(q, Resolved(originalResult(parsed)))
                /\ rcalls' = [rcalls EXCEPT ![q].printed = Some(parsed)]
         ELSE /\ IF c = "nonzero_exit"
                 THEN Respond(q, Rejected(<<"Python script failed: ", "stderr">>))
                 ELSE Respond(q, Rejected(<<"Invalid JSON from Python">>))
              /\ UNCHANGED rcalls
    /\ UNCHANGED <<svc, rtext, mood, sentVars, auxVars>>

\* The client has read the response
RecReturn(q) ==
    /\ rpc[q] = "responded"
    /\ rpc' = [rpc EXCEPT ![q] = "idle"]
    /\ rtext' = [rtext EXCEPT ![q] = << >>]
    /\ mood' = [mood EXCEPT ![q] = Undef]
    /\ rcalls' = [rcalls EXCEPT ![q] = NoRecCalls]
    /\ rresponse' = [rresponse EXCEPT ![q] = Undef]
    /\ UNCHANGED <<svc, served, sentVars, auxVars>>

NextRec ==
    \/ \E q \in RecReqs, t \in Texts : generatePlaylist(q, t)
    \/ \E q \in RecReqs : analyzeMoodUltraAdvancedSettle(q)
    \/ \E q \in RecReqs : getRecommendationsFromPythonClose(q)
    \/ \E q \in RecReqs : runOriginalPythonScriptClose(q)
    \/ \E q \in RecReqs : RecReturn(q)
    \/ ServiceChange

SpecRec == Init /\ [][NextRec]_vars

Next ==
    \/ \E r \in Reqs, t \in Texts : handleAnalyzeMood(r, t)
    \/ \E r \in Reqs : checkServiceHealthSettle(r)
    \/ \E r \in Reqs : analyzeUltraAdvancedSettle(r)
    \/ handleAnalyzeMoodReceive
    \/ handleGetRecommendations
    \/ Unmount
    \/ \E r \in Reqs : Return(r)
    \/ clearSentimentCache
    \/ checkData
    \/ Tick
    \/ ServiceChange

Spec == Init /\ [][Next]_vars

\* The event loop delivers every settled fetch: an answer or the timer of
\* the timeout option
NextService ==
    \/ \E r \in Reqs, t \in Texts : handleAnalyzeMood(r, t)
    \/ \E r \in Reqs : checkServiceHealthSettle(r)
    \/ \E r \in Reqs : analyzeUltraAdvancedSettle(r)
    \/ handleAnalyzeMoodReceive
    \/ Unmount
    \/ \E r \in Reqs : Return(r)
    \/ clearSentimentCache
    \/ ServiceChange

FairSpec ==
    /\ Init
    /\ [][NextService]_vars
    /\ \A r \in Reqs : WF_vars(checkServiceHealthSettle(r))
    /\ \A r \in Reqs : WF_vars(analyzeUltraAdvancedSettle(r))

\* One caller of analyzeSentiment next to the recommend requests
NextRequest ==
    \/ \E t \in Texts : handleAnalyzeMood("api", t)
    \/ checkServiceHealthSettle("api")
    \/ analyzeUltraAdvancedSettle("api")
    \/ Return("api")
    \/ \E t \in Texts : generatePlaylist("p1", t)
    \/ analyzeMoodUltraAdvancedSettle("p1")
    \/ getRecommendationsFromPythonClose("p1")
    \/ runOriginalPythonScriptClose("p1")
    \/ RecReturn("p1")
    \/ ServiceChange

SpecRequest == Init /\ [][NextRequest]_vars

\* The moodBasedRecs.py child of request q never closes: it keeps running, or
\* it could not be spawned and its 'error' event, which has no listener,
\* ends the server process.  Nothing else settles the promise: there is no
\* timer and no 'error' handler.
SubprocessStalls(q) ==
    /\ rpc[q] \in {"python", "fallback"}
    /\ rpc' = [rpc EXCEPT ![q] = "stalled"]
    /\ UNCHANGED <<svc, rtext, mood, rcalls, rresponse, served, sentVars, auxVars>>

\* The recommend requests; the event loop delivers the settled fetch and the
\* 'close' event of a child that exits
NextRecommend ==
    \/ \E q \in RecReqs, t \in Texts : generatePlaylist(q, t)
    \/ \E q \in RecReqs : analyzeMoodUltraAdvancedSettle(q)
    \/ \E q \in RecReqs : getRecommendationsFromPythonClose(q)
    \/ \E q \in RecReqs : runOriginalPythonScriptClose(q)
    \/ \E q \in RecReqs : RecReturn(q)
    \/ \E q \in RecReqs : SubprocessStalls(q)

FairRec ==
    /\ Init
    /\ [][NextRecommend]_vars
    /\ \A q \in RecReqs : WF_vars(analyzeMoodUltraAdvancedSettle(q))
    /\ \A q \in RecReqs : WF_vars(getRecommendationsFromPythonClose(q))
    /\ \A q \in RecReqs : WF_vars(runOriginalPythonScriptClose(q))

----------------------------------------------------------------------------
(* getRecommendationsFromMood on its own: every shape of audio_targets      *)

\* what the mood service may supply for valence, energy, danceability and
\* acousticness: nothing, a number, a [low, high] pair
UnitInputs ==
    { Undef, Some(Num(0)), Some(Num(700)),
      Some(Arr(<<300, 600>>)), Some(Arr(<<0, 400>>)) }

\* ... for tempo (BPM)
TempoInputs == { Undef, Some(Num(128000)), Some(Arr(<<90000, 110000>>)) }

\* ... for loudness (dB)
LoudnessInputs == { Undef, Some(Num(-5000)), Some(Num(0)) }

AudioTargetInputs ==
    { [valence |-> v, energy |-> e, danceability |-> d, tempo |-> t,
       loudness |-> l, acousticness |-> a] :
         v \in UnitInputs, e \in UnitInputs, d \in UnitInputs,
         t \in TempoInputs, l \in LoudnessInputs, a \in UnitInputs }

MoodAnalyses ==
    { [sentiment_score |-> Some(800), primary_emotion |-> Some("joy"),
       confidence |-> Some(912), audio_targets |-> at] :
         at \in {Undef} \cup {Some(x) : x \in AudioTargetInputs} }

\* runPythonScript's inner catch calls getRecommendationsFromMood
getRecommendationsFromMoodCall(a) ==
    /\ analysis = Undef
    /\ analysis' = Some(a)
    /\ targets' = Some(getRecommendationsFromMood(a))
    /\ UNCHANGED notTargets

\* the result object has been handed on
getRecommendationsFromMoodReturn ==
    /\ analysis # Undef
    /\ analysis' = Undef
    /\ targets' = Undef
    /\ UNCHANGED notTargets

NextTargets ==
    \/ \E a \in MoodAnalyses : getRecommendationsFromMoodCall(a)
    \/ getRecommendationsFromMoodReturn

SpecTargets == Init /\ [][NextTargets]_vars

----------------------------------------------------------------------------
(* analyzeMoodSentiment on its own: every result analyzeSentiment can       *)
(* resolve with                                                            *)

\* sentiment_score of the mood service's JSON: any number, or missing
ScoreInputs ==
    { Undef, Some(-2500), Some(-1001), Some(-1000), Some(-300), Some(0), Some(1),
      Some(1000), Some(1001), Some(7000) }

\* confidence: missing, 0, a probability, a number above 1
ConfidenceInputs == { Undef, Some(0), Some(912), Some(1500) }

\* primary_emotion: missing, empty, a label
EmotionInputs == { Undef, Some(""), Some("joy") }

\* what analyzeSentiment resolves with for these answers of the service
SentimentResults ==
    { markUltraAdvanced(analyzeUltraAdvanced(
          [sentiment_score |-> s, confidence |-> c, primary_emotion |-> e])) :
        s \in ScoreInputs, c \in ConfidenceInputs, e \in EmotionInputs }

\* analyzeSentiment has resolved: the handler builds and sends the body
analyzeMoodSentiment(sentimentResult) ==
    /\ analyzeInput = Undef
    /\ analyzeInput' = Some(sentimentResult)
    /\ analyzeOutput' = Some(analyzeMoodSentimentResponse(Resolved(sentimentResult)))
    /\ UNCHANGED notNorm

\* the client has read the response
analyzeMoodSentimentReturn ==
    /\ analyzeInput # Undef
    /\ analyzeInput' = Undef
    /\ analyzeOutput' = Undef
    /\ UNCHANGED notNorm

NextNormalize ==
    \/ \E sr \in SentimentResults : analyzeMoodSentiment(sr)
    \/ analyzeMoodSentimentReturn

SpecNormalize == Init /\ [][NextNormalize]_vars

----------------------------------------------------------------------------
(* playlistController.getUserPreferenceTracks and the table                 *)
(* user_preference_tracks                                                  *)

\* most rows one user has in the table
MaxPrefRows == 6

\* The table holds, for each user, rows written one after the other; a row
\* is identified by its position in that order, which is also the order of
\* updated_at.
PrefRow(u, k) == [user_id |-> u, updated_at |-> k]

\* .eq('user_id', u).order('updated_at', { ascending: false })
selectOrdered(table, u) == [i \in 1..table[u] |-> PrefRow(u, table[u] - i + 1)]

\* .limit(n)
limit(rows, n) == SubSeq(rows, 1, Min(n, Len(rows)))

\* variant: the query carries no limit
preferenceQueryNoLimit(table, u) == selectOrdered(table, u)

\* the query of getUserPreferenceTracks
preferenceQuery(table, u) == limit(selectOrdered(table, u), 5)

\* how the awaited query can settle: { data: rows }, { data: null },
\* { error }, or a rejection
QueryOutcomes == {"rows", "null", "error", "throws"}

\* grantTopTracksPermission / syncAllLikedSongs upsert one more track of u
upsertPreferenceTrack(u) ==
    /\ preferenceTracks[u] < MaxPrefRows
    /\ preferenceTracks' = [preferenceTracks EXCEPT ![u] = @ + 1]
    /\ UNCHANGED <<pfPc, pfUser, pfOutcome, pfResult, notPf>>

\* the call starts: getOrCreateUserUUID is awaited
getUserPreferenceTracks(userId) ==
    /\ pfPc = "idle"
    /\ pfPc' = "uuid"
    /\ pfUser' = Some(userId)
    /\ pfOutcome' = "none"
    /\ pfResult' = Undef
    /\ UNCHANGED <<preferenceTracks, notPf>>

\* getOrCreateUserUUID settles: the query is sent, or the catch returns []
pfUserUUIDSettle(ok) ==
    /\ pfPc = "uuid"
    /\ IF ok
       THEN /\ pfPc' = "query"
            /\ UNCHANGED <<pfOutcome, pfResult>>
       ELSE /\ pfPc' = "returned"
            /\ pfOutcome' = "uuid_rejected"
            /\ pfResult' = Some(Resolved(<< >>))
    /\ UNCHANGED <<preferenceTracks, pfUser, notPf>>

\* the query settles: data || [] is returned, or [] on an error or a
\* rejection
pfQuerySettle(outcome) ==
    /\ pfPc = "query"
    /\ pfPc' = "returned"
    /\ pfOutcome' = outcome
    /\ pfResult' = IF outcome = "rows"
                   THEN Some(Resolved(preferenceQuery(preferenceTracks, pfUser[1])))
                   ELSE Some(Resolved(<< >>))
    /\ UNCHANGED <<preferenceTracks, pfUser, notPf>>

\* the caller has taken the result
pfReturn ==
    /\ pfPc = "returned"
    /\ pfPc' = "idle"
    /\ pfUser' = Undef
    /\ pfOutcome' = "none"
    /\ pfResult' = Undef
    /\ UNCHANGED <<preferenceTracks, notPf>>

NextPreferences ==
    \/ \E u \in PrefUsers : upsertPreferenceTrack(u)
    \/ \E u \in PrefUsers : getUserPreferenceTracks(u)
    \/ \E ok \in BOOLEAN : pfUserUUIDSettle(ok)
    \/ \E outcome \in QueryOutcomes : pfQuerySettle(outcome)
    \/ pfReturn

SpecPreferences == Init /\ [][NextPreferences]_vars

----------------------------------------------------------------------------
(* moodController.logMood                                                  *)

\* sentiment_score of the request body: absent, or the score the Home page
\* got from POST /api/mood/analyze
BodyScores == { Undef, Some(0), Some(500), Some(-700) }

LogBodies == { [text |-> t, sentiment_score |-> sc] : t \in Texts, sc \in BodyScores }

lmRespond(status) ==
    /\ lmResponse' = Some([status |-> status])
    /\ lmPc' = "done"

\* the request arrives: getOrCreateUserUUID is awaited
logMood(body) ==
    /\ lmPc = "idle"
    /\ lmPc' = "uuid"
    /\ lmBody' = Some(body)
    /\ lmAnalyzed' = 0
    /\ lmScore' = Undef
    /\ lmRow' = Undef
    /\ lmResponse' = Undef
    /\ UNCHANGED notLm

\* !finalSentimentScore
needsAnalysis(finalSentimentScore) == ~TruthyNum(finalSentimentScore)

\* getOrCreateUserUUID settles: analyzeSentiment is called for a body
\* without a score, otherwise the insert is sent; a rejection is answered 500
lmUserUUIDSettle(ok) ==
    /\ lmPc = "uuid"
    /\ IF ~ok
       THEN /\ lmRespond(500)
            /\ UNCHANGED <<lmAnalyzed, lmScore>>
       ELSE IF needsAnalysis(lmBody[1].sentiment_score)
       THEN /\ lmPc' = "analyze"
            /\ lmAnalyzed' = lmAnalyzed + 1
            /\ UNCHANGED <<lmScore, lmResponse>>
       ELSE /\ lmPc' = "insert"
            /\ lmScore' = lmBody[1].sentiment_score
            /\ UNCHANGED <<lmAnalyzed, lmResponse>>
    /\ UNCHANGED <<lmBody, lmRow, notLm>>

\* sentimentData.sentiment_score || sentimentData.score || 0
scoreOf(sentimentData) ==
    IF TruthyNum(sentimentData.sentiment_score) THEN sentimentData.sentiment_score[1]
    ELSE IF TruthyNum(sentimentData.score) THEN sentimentData.score[1]
    ELSE 0

\* analyzeSentiment settles: its score is taken, or the catch answers 500
lmAnalyzeSettle(res) ==
    /\ lmPc = "analyze"
    /\ IF res.ok
       THEN /\ lmPc' = "insert"
            /\ lmScore' = Some(scoreOf(res.value))
            /\ UNCHANGED lmResponse
       ELSE /\ lmRespond(500)
            /\ UNCHANGED lmScore
    /\ UNCHANGED <<lmBody, lmAnalyzed, lmRow, notLm>>

\* how the awaited insert can settle: { data }, { error }, or a rejection
InsertOutcomes == {"data", "error", "throws"}

\* the insert into the moods table settles
lmInsertSettle(outcome) ==
    /\ lmPc = "insert"
    /\ IF outcome = "data"
       THEN /\ lmRow' = Some([inputText |-> lmBody[1].text, sentimentScore |-> lmScore[1]])
            /\ lmRespond(200)
       ELSE /\ lmRespond(IF outcome = "error" THEN 400 ELSE 500)
            /\ UNCHANGED lmRow
    /\ UNCHANGED <<lmBody, lmAnalyzed, lmScore, notLm>>

\* the client has read the response
lmReturn ==
    /\ lmPc = "done"
    /\ lmPc' = "idle"
    /\ lmBody' = Undef
    /\ lmAnalyzed' = 0
    /\ lmScore' = Undef
    /\ lmRow' = Undef
    /\ lmResponse' = Undef
    /\ UNCHANGED notLm

NextLogMood ==
    \/ \E body \in LogBodies : logMood(body)
    \/ \E ok \in BOOLEAN : lmUserUUIDSettle(ok)
    \/ \E res \in {Resolved(sr) : sr \in SentimentResults}
                   \cup {Rejected(ErrNotRunning), Rejected(ErrAnalyzeFailed)} :
          lmAnalyzeSettle(res)
    \/ \E outcome \in InsertOutcomes : lmInsertSettle(outcome)
    \/ lmReturn

SpecLogMood == Init /\ [][NextLogMood]_vars

----------------------------------------------------------------------------
(* playlistController.generatePlaylist with the insert into playlists       *)

\* what runPythonScript can resolve with
RunPythonResults ==
    {pythonResult(m, parsed) : m \in ClassifierResults, parsed \in PyOutputs}
    \cup {audioTargetResult(m) : m \in ClassifierResults}
    \cup {originalResult(parsed) : parsed \in PyOutputs}

\* how generateRecommendations can settle
RecommendOutcomes ==
    {generateRecommendations(Resolved(x)) : x \in RunPythonResults}
    \cup {generateRecommendations(Rejected(<<"Python script failed: ", "stderr">>)),
          generateRecommendations(Rejected(<<"Invalid JSON from Python">>))}

\* a || b || dflt for numbers and for strings
FirstTruthyNum(a, b, dflt) ==
    IF TruthyNum(a) THEN a[1] ELSE IF TruthyNum(b) THEN b[1] ELSE dflt

FirstTruthyStr(a, b, dflt) ==
    IF TruthyStr(a) THEN a[1] ELSE IF TruthyStr(b) THEN b[1] ELSE dflt

\* playlist.mood_analysis?.f
moodAnalysisField(playlist, f) ==
    IF playlist.mood_analysis = Undef THEN Undef ELSE playlist.mood_analysis[1][f]

\* the row handed to insert (without its dates)
playlistRow(userId, moodText, playlist) ==
    [ userId |-> userId,
      inputText |-> moodText,
      songData |->
        [ sentiment_score |-> FirstTruthyNum(playlist.sentiment_score,
                                             moodAnalysisField(playlist, "sentiment_score"), 0),
          primary_emotion |-> FirstTruthyStr(playlist.primary_emotion,
                                             moodAnalysisField(playlist, "primary_emotion"),
                                             "neutral"),
          method |-> IF TruthyStr(playlist.method) THEN playlist.method[1] ELSE "unknown",
          confidence |-> FirstTruthyNum(playlist.confidence,
                                        moodAnalysisField(playlist, "confidence"), 500),
          recommendations |-> IF TruthyObj(playlist.recommendations)
                              THEN playlist.recommendations[1]
                              ELSE IF TruthyObj(playlist.tracks) THEN playlist.tracks[1]
                              ELSE List(<< >>) ] ]

\* res.json / res.status(500).json
gpSend(resp) ==
    /\ gpSent' = Append(gpSent, resp)
    /\ gpPc' = "done"

\* the request arrives: getOrCreateUserUUID is awaited
gpStart(userId, moodText) ==
    /\ gpPc = "idle"
    /\ gpPc' = "uuid"
    /\ gpReq' = Some([userId |-> userId, moodText |-> moodText])
    /\ gpPlaylist' = Undef
    /\ gpInsert' = "none"
    /\ gpRow' = Undef
    /\ gpSent' = << >>
    /\ UNCHANGED notGp

\* getOrCreateUserUUID settles: generateRecommendations is called, or the
\* catch answers 500
gpUserUUIDSettle(ok) ==
    /\ gpPc = "uuid"
    /\ IF ok
       THEN /\ gpPc' = "recommend"
            /\ UNCHANGED gpSent
       ELSE gpSend([status |-> 500, body |-> [error |-> <<"user mapping failed">>]])
    /\ UNCHANGED <<gpReq, gpPlaylist, gpInsert, gpRow, notGp>>

\* generateRecommendations settles: a rejection or a result without
\* recommendations and tracks is answered 500, otherwise the insert is sent
gpRecommendSettle(res) ==
    /\ gpPc = "recommend"
    /\ gpPlaylist' = Some(res)
    /\ IF generatePlaylistResponse(res).status = 500
       THEN gpSend(generatePlaylistResponse(res))
       ELSE /\ gpPc' = "insert"
            /\ UNCHANGED gpSent
    /\ UNCHANGED <<gpReq, gpInsert, gpRow, notGp>>

\* how the awaited insert settles: the query builder resolves with
\* { data, error } (it rejects only under throwOnError, which is not used)
PersistOutcomes == {"data", "error"}

\* variant: an insert error is thrown on to the catch
persistResponseThrows(outcome, res) ==
    IF outcome = "error"
    THEN [status |-> 500, body |-> [error |-> <<"insert failed">>]]
    ELSE generatePlaylistResponse(res)

\* after the insert: its error is only logged and res.json(playlist) is sent
persistResponse(outcome, res) == generatePlaylistResponse(res)

\* the insert settles
gpInsertSettle(outcome) ==
    /\ gpPc = "insert"
    /\ gpInsert' = outcome
    /\ gpRow' = IF outcome = "data"
                THEN Some(playlistRow(gpReq[1].userId, gpReq[1].moodText, gpPlaylist[1].value))
                ELSE Undef
    /\ gpSend(persistResponse(outcome, gpPlaylist[1]))
    /\ UNCHANGED <<gpReq, gpPlaylist, notGp>>

\* the client has read the response
gpReturn ==
    /\ gpPc = "done"
    /\ gpPc' = "idle"
    /\ gpReq' = Undef
    /\ gpPlaylist' = Undef
    /\ gpInsert' = "none"
    /\ gpRow' = Undef
    /\ gpSent' = << >>
    /\ UNCHANGED notGp

NextPersist ==
    \/ \E u \in PrefUsers, t \in Texts : gpStart(u, t)
    \/ \E ok \in BOOLEAN : gpUserUUIDSettle(ok)
    \/ \E res \in RecommendOutcomes : gpRecommendSettle(res)
    \/ \E outcome \in PersistOutcomes : gpInsertSettle(outcome)
    \/ gpReturn

SpecPersist == Init /\ [][NextPersist]_vars

----------------------------------------------------------------------------
(* Production start-up script: pip install, startPythonService,            *)
(* startNodeServer                                                         *)

\* chunks of the Python service's stdout that contain the ready message
MaxReadyChunks == 2

\* the `code` of the child's 'exit' event; null when a signal ended it
ExitCodes == {"0", "1", "null"}

\* no Node server is started in this step
noNodeStart == UNCHANGED <<nodeStarts, nodeServers>>

\* startNodeServer: one more `node app.js` is spawned and recorded in
\* process.nodeServer, and setupGracefulShutdown registers its handlers
startNodeServer ==
    /\ nodeStarts' = nodeStarts + 1
    /\ nodeServers' = Append(nodeServers, "running")

\* startPythonService: the child is spawned, its handlers are attached and
\* the 15 s timer is set
startPythonService ==
    /\ pythonService' = "spawning"
    /\ fallbackTimer' = "armed"
    /\ UNCHANGED <<pythonExit, pythonReady, readyChunks, readyTimers>>

\* the top level of the script: mood_service.py missing -> Node server only;
\* requirements file present -> pip install first; else the Python service
ProductionStart ==
    /\ script = "running"
    /\ launch = "script"
    /\ \E serviceExists \in BOOLEAN, requirementsExist \in BOOLEAN :
         IF ~serviceExists
         THEN /\ launch' = "done"
              /\ startNodeServer
              /\ UNCHANGED <<pythonService, pythonExit, pythonReady, readyChunks, readyTimers,
                             fallbackTimer>>
         ELSE IF requirementsExist
         THEN /\ launch' = "installing"
              /\ UNCHANGED <<pythonService, pythonExit, pythonReady, readyChunks, readyTimers,
                             fallbackTimer, nodeStarts, nodeServers>>
         ELSE /\ launch' = "done"
              /\ startPythonService
              /\ noNodeStart
    /\ UNCHANGED <<script, pythonSigterm, prodSignals, shutdownTimers, notProd>>

\* callback of exec('pip install ...')
PipInstallDone ==
    /\ script = "running"
    /\ launch = "installing"
    /\ launch' = "done"
    /\ \E error \in BOOLEAN :
         IF error
         THEN /\ startNodeServer
              /\ UNCHANGED <<pythonService, pythonExit, pythonReady, readyChunks, readyTimers,
                             fallbackTimer>>
         ELSE /\ startPythonService
              /\ noNodeStart
    /\ UNCHANGED <<script, pythonSigterm, prodSignals, shutdownTimers, notProd>>

\* the child process exists and runs
PythonSpawned ==
    /\ script = "running"
    /\ pythonService = "spawning"
    /\ pythonService' = "running"
    /\ UNCHANGED <<launch, pythonExit, pythonReady, readyChunks, readyTimers,
                   fallbackTimer, nodeStarts, nodeServers>>
    /\ UNCHANGED <<script, pythonSigterm, prodSignals, shutdownTimers, notProd>>

\* variant: a Python service that cannot be spawned ends the start-up
pythonServiceOnErrorAbort == noNodeStart

\* pythonService.on('error'): the Node server is started without the service
pythonServiceOnError == startNodeServer

\* the child could not be spawned: 'error' is emitted
PythonSpawnError ==
    /\ script = "running"
    /\ pythonService = "spawning"
    /\ pythonService' = "errored"
    /\ pythonServiceOnError
    /\ UNCHANGED <<launch, pythonExit, pythonReady, readyChunks, readyTimers,
                   fallbackTimer>>
    /\ UNCHANGED <<script, pythonSigterm, prodSignals, shutdownTimers, notProd>>

\* pythonService.stdout.on('data') with a chunk that includes the ready
\* message (any other chunk is only logged)
PythonStdoutReady ==
    /\ script = "running"
    /\ pythonService = "running"
    /\ readyChunks < MaxReadyChunks
    /\ pythonReady' = TRUE
    /\ readyChunks' = readyChunks + 1
    /\ readyTimers' = readyTimers + 1
    /\ UNCHANGED <<launch, pythonService, pythonExit, fallbackTimer, nodeStarts, nodeServers>>
    /\ UNCHANGED <<script, pythonSigterm, prodSignals, shutdownTimers, notProd>>

\* setTimeout(startNodeServer, 1000) fires
ReadyTimerFires ==
    /\ script = "running"
    /\ readyTimers > 0
    /\ readyTimers' = readyTimers - 1
    /\ startNodeServer
    /\ UNCHANGED <<launch, pythonService, pythonExit, pythonReady, readyChunks,
                   fallbackTimer>>
    /\ UNCHANGED <<script, pythonSigterm, prodSignals, shutdownTimers, notProd>>

\* pythonService.on('exit'); after 'error' the event may or may not follow
PythonExit(code) ==
    /\ script = "running"
    /\ pythonService \in {"running", "errored"}
    /\ pythonExit = Undef
    /\ pythonService = "errored" => code # "0"
    /\ pythonService' = IF pythonService = "running" THEN "exited" ELSE pythonService
    /\ pythonExit' = Some(code)
    /\ IF code # "0" /\ ~pythonReady
       THEN startNodeServer
       ELSE noNodeStart
    /\ UNCHANGED <<launch, pythonReady, readyChunks, readyTimers, fallbackTimer>>
    /\ UNCHANGED <<script, pythonSigterm, prodSignals, shutdownTimers, notProd>>

\* variant: the timer only logs
fallbackTimeoutLogsOnly == noNodeStart

\* callback of the 15 s timer: if (!pythonReady) startNodeServer()
fallbackTimeout ==
    IF ~pythonReady
    THEN startNodeServer
    ELSE noNodeStart

\* the 15 s timer of startPythonService fires
FallbackTimerFires ==
    /\ script = "running"
    /\ fallbackTimer = "armed"
    /\ fallbackTimer' = "fired"
    /\ fallbackTimeout
    /\ UNCHANGED <<launch, pythonService, pythonExit, pythonReady, readyChunks, readyTimers>>
    /\ UNCHANGED <<script, pythonSigterm, prodSignals, shutdownTimers, notProd>>

\* nodeServer.on('error'): process.exit(1)
NodeServerError ==
    /\ script = "running"
    /\ nodeStarts > 0
    /\ script' = "exit1"
    /\ UNCHANGED <<launch, pythonService, pythonExit, pythonReady, readyChunks,
                   readyTimers, fallbackTimer, nodeStarts, nodeServers>>
    /\ UNCHANGED <<pythonSigterm, prodSignals, shutdownTimers, notProd>>

\* a `node app.js` child ends by itself
NodeServerExits(i) ==
    /\ script = "running"
    /\ nodeServers[i] = "running"
    /\ nodeServers' = [nodeServers EXCEPT ![i] = "exited"]
    /\ UNCHANGED <<launch, pythonService, pythonExit, pythonReady, readyChunks,
                   readyTimers, fallbackTimer, nodeStarts>>
    /\ UNCHANGED <<script, pythonSigterm, prodSignals, shutdownTimers, notProd>>

\* child.kill('SIGTERM'): a child that has ended receives nothing
killed(state) == IF state = "running" THEN "sigterm" ELSE state

\* SIGINT or SIGTERM arrives once setupGracefulShutdown has registered the
\* handlers.  Every startNodeServer registered one more pair, and each runs
\* `shutdown`: process.pythonService and process.nodeServer, the child
\* spawned last, are sent SIGTERM, and a 3 s timer is set.
ProdSignal(signal) ==
    /\ script = "running"
    /\ nodeStarts > 0
    /\ prodSignals < MaxSignals
    /\ prodSignals' = prodSignals + 1
    /\ pythonSigterm' = (pythonSigterm \/ pythonService \in {"spawning", "running"})
    /\ nodeServers' = [nodeServers EXCEPT ![Len(nodeServers)] = killed(@)]
    /\ shutdownTimers' = shutdownTimers + nodeStarts
    /\ UNCHANGED <<launch, pythonService, pythonExit, pythonReady, readyChunks,
                   readyTimers, fallbackTimer, nodeStarts>>
    /\ UNCHANGED <<script, notProd>>

\* setTimeout(() => process.exit(0), 3000) fires
ShutdownTimerFires ==
    /\ script = "running"
    /\ shutdownTimers > 0
    /\ script' = "exit0"
    /\ UNCHANGED <<launch, pythonService, pythonExit, pythonReady, readyChunks,
                   readyTimers, fallbackTimer, nodeStarts, nodeServers>>
    /\ UNCHANGED <<pythonSigterm, prodSignals, shutdownTimers, notProd>>

NextProd ==
    \/ ProductionStart
    \/ PipInstallDone
    \/ PythonSpawned
    \/ PythonSpawnError
    \/ PythonStdoutReady
    \/ ReadyTimerFires
    \/ \E code \in ExitCodes : PythonExit(code)
    \/ FallbackTimerFires
    \/ NodeServerError
    \/ \E i \in 1..Len(nodeServers) : NodeServerExits(i)
    \/ \E signal \in {"SIGINT", "SIGTERM"} : ProdSignal(signal)
    \/ ShutdownTimerFires

SpecProd == Init /\ [][NextProd]_vars

\* The script's top level runs, pip install ends, and timers that are set
\* fire while the script lives
FairProd ==
    /\ Init
    /\ [][NextProd]_vars
    /\ WF_vars(ProductionStart)
    /\ WF_vars(PipInstallDone)
    /\ WF_vars(ReadyTimerFires)
    /\ WF_vars(FallbackTimerFires)

----------------------------------------------------------------------------
(* Two-service start script: spawn mood_service.py, after 3 s spawn app.js  *)

\* seconds of the script's run that are followed
MaxUptime == 5

\* setTimeout(..., 3000), in seconds
StarterDelay == 3

\* the child process is alive
Alive(p) == p \in {"starting", "up"}

\* the script runs: the Python service is spawned and the timer is set
StarterStart ==
    /\ starterScript = "idle"
    /\ starterScript' = "running"
    /\ starterPython' = "spawning"
    /\ starterTimer' = "armed"
    /\ UNCHANGED <<starterNode, starterExitTimers>>
    /\ UNCHANGED <<starterClock, notStarter>>

\* the Python child exists; it has not opened its port yet
StarterPythonSpawned ==
    /\ starterPython = "spawning"
    /\ starterPython' = "starting"
    /\ UNCHANGED <<starterScript, starterTimer, starterNode, starterExitTimers>>
    /\ UNCHANGED <<starterClock, notStarter>>

\* the Python child could not be spawned: 'error' is emitted and nothing
\* listens for it, which ends the script with an uncaught exception
StarterPythonSpawnError ==
    /\ starterPython = "spawning"
    /\ starterScript = "running"
    /\ starterPython' = "failed"
    /\ starterScript' = "crashed"
    /\ UNCHANGED <<starterTimer, starterNode, starterExitTimers>>
    /\ UNCHANGED <<starterClock, notStarter>>

\* the Python service has loaded its models and listens
StarterPythonUp ==
    /\ starterPython = "starting"
    /\ starterPython' = "up"
    /\ UNCHANGED <<starterScript, starterTimer, starterNode, starterExitTimers>>
    /\ UNCHANGED <<starterClock, notStarter>>

\* the Python service ends by itself; the script listens for no event of it
StarterPythonExits ==
    /\ Alive(starterPython)
    /\ starterPython' = "failed"
    /\ UNCHANGED <<starterScript, starterTimer, starterNode, starterExitTimers>>
    /\ UNCHANGED <<starterClock, notStarter>>

\* the 3 s timer fires: app.js is spawned and the signal handlers are
\* registered
StarterTimerFires ==
    /\ starterScript = "running"
    /\ starterTimer = "armed"
    /\ starterClock = StarterDelay
    /\ starterTimer' = "fired"
    /\ starterNode' = Some([python |-> starterPython, state |-> "running"])
    /\ UNCHANGED <<starterScript, starterPython, starterExitTimers>>
    /\ UNCHANGED <<starterClock, notStarter>>

\* SIGINT or SIGTERM: without handlers the script ends; with handlers both
\* children are sent SIGTERM and the exit timer is set
StarterSignal ==
    /\ starterScript = "running"
    /\ IF starterTimer # "fired"
       THEN /\ starterScript' = "killed"
            /\ UNCHANGED <<starterPython, starterNode, starterExitTimers>>
       ELSE /\ starterExitTimers < MaxSignals
            /\ starterExitTimers' = starterExitTimers + 1
            /\ starterPython' = IF Alive(starterPython) THEN "terminated"
                                ELSE starterPython
            /\ starterNode' = Some([starterNode[1] EXCEPT !.state = "terminated"])
            /\ UNCHANGED starterScript
    /\ UNCHANGED starterTimer
    /\ UNCHANGED <<starterClock, notStarter>>

\* setTimeout(() => process.exit(0), 2000) fires
StarterExitTimerFires ==
    /\ starterScript = "running"
    /\ starterExitTimers > 0
    /\ starterScript' = "exited"
    /\ UNCHANGED <<starterPython, starterTimer, starterNode, starterExitTimers>>
    /\ UNCHANGED <<starterClock, notStarter>>

\* one second passes; the timer fires when its delay has passed
StarterTick ==
    /\ starterScript = "running"
    /\ starterClock < MaxUptime
    /\ starterTimer = "armed" => starterClock < StarterDelay
    /\ starterClock' = starterClock + 1
    /\ UNCHANGED <<starterScript, starterPython, starterTimer, starterNode,
                   starterExitTimers>>
    /\ UNCHANGED notStarter

NextStarter ==
    \/ StarterStart
    \/ StarterPythonSpawned
    \/ StarterPythonSpawnError
    \/ StarterPythonUp
    \/ StarterPythonExits
    \/ StarterTimerFires
    \/ StarterSignal
    \/ StarterExitTimerFires
    \/ StarterTick

SpecStarter == Init /\ [][NextStarter]_vars

----------------------------------------------------------------------------
(* playlistController.createMoodPlaylist                                   *)

\* longest track list of a request
MaxTracks == 3

SpotifyPrefix == "spotify:track:"

\* a track of the request body: a string, an object, or anything else; an
\* object may carry an id (uri || id || track_id || trackId || spotify_id)
\* and may carry track_name and artist_name.  Ids are sequences of parts.
Track(kind, id, name) == [kind |-> kind, id |-> id, name |-> name]

TrackInputs ==
    { Track("string", Some(<<"a">>), Undef),
      Track("string", Some(<<SpotifyPrefix, "b">>), Undef),
      Track("object", Some(<<"c">>), Some("n")),
      Track("object", Undef, Some("d")),
      Track("object", Undef, Undef),
      Track("other", Undef, Undef) }

RECURSIVE SeqsUpTo(_, _)
SeqsUpTo(S, n) ==
    IF n = 0 THEN { << >> }
    ELSE LET shorter == SeqsUpTo(S, n - 1)
         IN shorter \cup { Append(q, x) : q \in shorter, x \in S }

\* id.startsWith('spotify:track:')
startsWithPrefix(id) == id # << >> /\ id[1] = SpotifyPrefix

\* id.startsWith('spotify:track:') ? id : `spotify:track:${id}`
toUri(id) == IF startsWithPrefix(id) THEN id ELSE <<SpotifyPrefix>> \o id

\* foundTrack.uri of the first result of searchTracks for this track
foundUri(track) == <<SpotifyPrefix, "found", track.name[1]>>

\* how searchTracks can settle
SearchOutcomes == {"found", "empty", "throws"}

mpRespond(status) ==
    /\ mpResponse' = Some([status |-> status])
    /\ mpPc' = "done"

\* the request arrives: validation, then getOrCreateUserUUID is awaited
createMoodPlaylist(hasMoodText, ts) ==
    /\ mpPc = "idle"
    /\ mpTracks' = ts
    /\ mpI' = 1
    /\ trackUris' = << >>
    /\ mpCreated' = Undef
    /\ IF ~hasMoodText \/ ts = << >>
       THEN mpRespond(400)
       ELSE /\ mpPc' = "uuid"
            /\ mpResponse' = Undef
    /\ UNCHANGED <<mpInserted, notMp>>

\* getOrCreateUserUUID settles; a rejection reaches the outer catch
mpUserUUIDSettle(ok) ==
    /\ mpPc = "uuid"
    /\ IF ok
       THEN /\ mpPc' = "loop"
            /\ UNCHANGED mpResponse
       ELSE mpRespond(400)
    /\ UNCHANGED <<mpTracks, mpI, trackUris, mpCreated, mpInserted, notMp>>

\* variant: a resolved track is put in front of the list
pushUriFront(uri) == trackUris' = <<uri>> \o trackUris

\* trackUris.push(uri)
pushUri(uri) == trackUris' = Append(trackUris, uri)

\* one iteration of the loop, up to its end or to the await of searchTracks
mpProcessTrack ==
    /\ mpPc = "loop"
    /\ mpI <= Len(mpTracks)
    /\ LET track == mpTracks[mpI]
       IN IF track.kind = "string"
          THEN /\ pushUri(toUri(track.id[1]))
               /\ mpI' = mpI + 1
               /\ UNCHANGED mpPc
          ELSE IF track.kind = "object" /\ track.id # Undef
          THEN /\ pushUri(toUri(track.id[1]))
               /\ mpI' = mpI + 1
               /\ UNCHANGED mpPc
          ELSE IF track.kind = "object" /\ track.name # Undef
          THEN /\ mpPc' = "search"
               /\ UNCHANGED <<mpI, trackUris>>
          ELSE \* throw ... caught by the inner catch: the track is skipped
               /\ mpI' = mpI + 1
               /\ UNCHANGED <<mpPc, trackUris>>
    /\ UNCHANGED <<mpTracks, mpCreated, mpInserted, mpResponse, notMp>>

\* searchTracks settles: the first result's uri is pushed, an empty result
\* or a rejection skips the track
mpSearchSettle(outcome) ==
    /\ mpPc = "search"
    /\ mpPc' = "loop"
    /\ mpI' = mpI + 1
    /\ IF outcome = "found"
       THEN pushUri(foundUri(mpTracks[mpI]))
       ELSE UNCHANGED trackUris
    /\ UNCHANGED <<mpTracks, mpCreated, mpInserted, mpResponse, notMp>>

\* variant: the list is handed on without the test
noneResolvedUnchecked(uris) == FALSE

\* trackUris.length === 0
noneResolved(uris) == Len(uris) = 0

\* after the loop: no URI -> 400, else createPlaylistForMood is called
mpLoopEnd ==
    /\ mpPc = "loop"
    /\ mpI > Len(mpTracks)
    /\ IF noneResolved(trackUris)
       THEN /\ mpRespond(400)
            /\ UNCHANGED mpCreated
       ELSE /\ mpPc' = "create"
            /\ mpCreated' = Some(trackUris)
            /\ UNCHANGED mpResponse
    /\ UNCHANGED <<mpTracks, mpI, trackUris, mpInserted, notMp>>

\* createPlaylistForMood settles: the row is inserted and the result is
\* sent, or the rejection reaches the outer catch
mpCreateSettle(ok) ==
    /\ mpPc = "create"
    /\ IF ok
       THEN /\ mpInserted' = 1
            /\ mpRespond(200)
       ELSE /\ mpRespond(400)
            /\ UNCHANGED mpInserted
    /\ UNCHANGED <<mpTracks, mpI, trackUris, mpCreated, notMp>>

\* the client has read the response
mpReturn ==
    /\ mpPc = "done"
    /\ mpPc' = "idle"
    /\ mpTracks' = << >>
    /\ mpI' = 1
    /\ trackUris' = << >>
    /\ mpCreated' = Undef
    /\ mpInserted' = 0
    /\ mpResponse' = Undef
    /\ UNCHANGED notMp

NextMoodPlaylist ==
    \/ \E hasMoodText \in BOOLEAN, ts \in SeqsUpTo(TrackInputs, MaxTracks) :
          createMoodPlaylist(hasMoodText, ts)
    \/ \E ok \in BOOLEAN : mpUserUUIDSettle(ok)
    \/ mpProcessTrack
    \/ \E outcome \in SearchOutcomes : mpSearchSettle(outcome)
    \/ mpLoopEnd
    \/ \E ok \in BOOLEAN : mpCreateSettle(ok)
    \/ mpReturn

SpecMoodPlaylist == Init /\ [][NextMoodPlaylist]_vars

----------------------------------------------------------------------------
(* Properties *)

\* "lowercased and trimmed", stated on positions: the text between its first
\* and last non-whitespace character, every letter lowered
Inner(t) == {i \in 1..Len(t) : t[i] \notin WhiteSpace}

NormalizedText(t) ==
    IF Inner(t) = {} THEN << >>
    ELSE LET lo == CHOOSE i \in Inner(t) : \A j \in Inner(t) : i <= j
             hi == CHOOSE i \in Inner(t) : \A j \in Inner(t) : j <= i
         IN [i \in 1..(hi - lo + 1) |-> LowerChar(t[lo + i - 1])]

\* the step in which caller r issues its analyzeSentiment call
StartOf(r) == pc[r] = "idle" /\ pc'[r] # "idle"

\* the step in which the call of r stores a fresh result
StoreOf(r) == pc[r] = "analyze" /\ pc'[r] = "responded" /\ result'[r].ok

\* the classifier call of recommend request q has failed
ClassifierFailed(q) == rpc[q] \in {"fallback", "responded"} /\ mood[q] = Undef

\* C1 (as stated): when the classifier call of the recommend path fails, no
\* recommender subprocess is started and the request gets no successful
\* recommendations answer.
C1_FailsWholeRequest ==
    \A q \in RecReqs :
        ClassifierFailed(q) =>
            /\ rcalls[q].spawn = 0
            /\ (rpc[q] = "responded" => rresponse[q][1].status # 200)

\* C1 (amended): when the classifier call of the recommend path fails,
\* runPythonScript starts exactly one fallback subprocess
\* (runOriginalPythonScript); a successful answer then is that subprocess's
\* parsed output, without any mood analysis.
C1_FallsBackToOriginalScript ==
    \A q \in RecReqs :
        ClassifierFailed(q) =>
            /\ rcalls[q].spawn = 1
            /\ rcalls[q].fallback = 1
            /\ (rpc[q] = "responded" /\ rresponse[q][1].status = 200 =>
                  /\ rresponse[q][1].body \in {originalResult(p) : p \in PyOutputs}
                  /\ rresponse[q][1].body.mood_analysis = Undef)

C1_Witness ==
    \E q \in RecReqs :
        /\ ClassifierFailed(q)
        /\ rpc[q] = "responded"
        /\ rresponse[q][1].status = 200

\* C2: a failed mood analysis is answered with an error carrying no score or
\* label, and afterwards the Home page holds no sentiment and cannot navigate
\* to the recommendations with one.
C2_NoSubstitutedMood ==
    /\ (pc[Home] \in {"responded", "settled"} /\ ~result[Home].ok =>
          /\ response[Home][1].status = 500
          /\ {"score", "label"} \cap DOMAIN response[Home][1].body = {})
    /\ (pc[Home] = "settled" /\ ~result[Home].ok =>
          /\ sentiment = Undef
          /\ navigated = Undef)

\* C3: a call whose text normalizes like the text of an entry stored at most
\* 3600 s ago returns that entry's value and sends nothing to the mood
\* service; such an entry only disappears through clearCache.
C3_PutThenGet ==
    [][ /\ \A r \in Reqs : \A k \in DOMAIN cache :
              ( /\ StartOf(r)
                /\ NormalizedText(text'[r]) = NormalizedText(cache[k].srcText)
                /\ now <= cache[k].insertedAt + 3600 )
              => /\ pc'[r] = "responded"
                 /\ result'[r] = Resolved(cache[k].v)
                 /\ calls'[r].health = 0
                 /\ calls'[r].analyze = 0
        /\ \A k \in DOMAIN cache :
              (now <= cache[k].insertedAt + 3600 /\ k \notin DOMAIN cache')
              => (cleared' /\ cache' = << >>)
      ]_vars

C3_Witness ==
    \E r \in Reqs :
        /\ pc[r] = "responded"
        /\ calls[r].lookup = "hit"
        /\ svc = "silent"
        /\ \E k \in DOMAIN cache :
              /\ result[r] = Resolved(cache[k].v)
              /\ cache[k].srcText # text[r]
              /\ NormalizedText(cache[k].srcText) = NormalizedText(text[r])

\* C4: every entry expires exactly 3600 s after its insert; only a new store
\* rewrites an entry, a hit returns an entry at most 3600 s old and leaves the
\* cache as it is, and a call that finds no entry of that age for its text
\* contacts the mood service.
C4_FixedTTL ==
    /\ [](\A k \in DOMAIN cache : cache[k].t = cache[k].insertedAt + 3600)
    /\ [][ /\ \A k \in (DOMAIN cache) \cap (DOMAIN cache') :
                 cache'[k] # cache[k] =>
                    /\ cache'[k].insertedAt = now
                    /\ \E r \in Reqs : StoreOf(r) /\ result'[r] = Resolved(cache'[k].v)
           /\ \A r \in Reqs :
                 StartOf(r) =>
                    /\ (pc'[r] = "responded" =>
                          /\ cache' = cache
                          /\ \E k \in DOMAIN cache :
                                /\ now <= cache[k].insertedAt + 3600
                                /\ result'[r] = Resolved(cache[k].v))
                    /\ ((\A k \in DOMAIN cache :
                            NormalizedText(cache[k].srcText) = NormalizedText(text'[r])
                            => now > cache[k].insertedAt + 3600)
                        => (pc'[r] = "health" /\ calls'[r].health = 1))
         ]_vars

C4_Witness ==
    \E r \in Reqs : pc[r] = "health" /\ calls[r].lookup = "expired" /\ calls[r].health = 1

\* C5: a call is served from the cache exactly when a live entry was stored
\* for a text that is equal to the call's text after lowercasing and
\* trimming; every key is "mood:" followed by that normal form.
C5_KeyNormalization ==
    /\ [](\A k \in DOMAIN cache :
             k = <<"m", "o", "o", "d", ":">> \o NormalizedText(cache[k].srcText))
    /\ [][\A r \in Reqs :
             StartOf(r) =>
                ( (pc'[r] = "responded")
                  <=> (\E k \in DOMAIN cache :
                          /\ now <= cache[k].insertedAt + 3600
                          /\ NormalizedText(cache[k].srcText) = NormalizedText(text'[r])) )
         ]_vars

C5_Witness ==
    /\ Cardinality(DOMAIN cache) = 2
    /\ \E r \in Reqs :
          /\ pc[r] = "responded"
          /\ calls[r].lookup = "hit"
          /\ \E k \in DOMAIN cache : text[r] # cache[k].srcText /\ k = cacheKey(text[r])

\* C6 (as stated): the cache enforces a maximum entry count, here any maximum
\* below the number of distinct keys that are requested.
C6_CapacityEnforced == Cardinality(DOMAIN cache) < Cardinality(AllKeys)

\* C6 (amended): there is no capacity and no eviction on insert: a store adds
\* or rewrites its own key and leaves every other entry as it is; an entry
\* leaves the cache only once it is older than 3600 s or by clearCache.
C6_NoEvictionOnInsert ==
    [][ /\ \A r \in Reqs :
              StoreOf(r) =>
                 /\ DOMAIN cache' = (DOMAIN cache) \cup {cacheKey(text[r])}
                 /\ \A k \in (DOMAIN cache) \ {cacheKey(text[r])} : cache'[k] = cache[k]
        /\ \A k \in (DOMAIN cache) \ (DOMAIN cache') :
              now > cache[k].insertedAt + 3600 \/ cleared'
      ]_vars

C6_Witness == Cardinality(DOMAIN cache) = Cardinality(AllKeys) /\ Cardinality(AllKeys) > 1

\* C7: once clearCache has run the cache is empty, a key enters it again only
\* by a successful store for that key, and until then every call misses and
\* contacts the mood service.
C7_ClearEmptiesCache ==
    /\ [](cleared => DOMAIN cache = {})
    /\ [][ /\ \A k \in (DOMAIN cache') \ (DOMAIN cache) :
                 \E r \in Reqs : StoreOf(r) /\ k = cacheKey(text[r])
           /\ \A r \in Reqs :
                 (StartOf(r) /\ cacheKey(text'[r]) \notin DOMAIN cache)
                 => (pc'[r] = "health" /\ calls'[r].health = 1)
         ]_vars

C7_Witness ==
    \E r \in Reqs, r2 \in Reqs :
        /\ r # r2
        /\ pc[r] = "health"
        /\ calls[r].lookup = "cleared"
        /\ pc[r2] = "responded"
        /\ result[r2].ok
        /\ cacheKey(text[r2]) = cacheKey(text[r])

\* C8 (as stated): a recommend request for a text that was already answered
\* sends no classifier request and starts no subprocess.
C8_Memoized ==
    \A q \in RecReqs :
        rcalls[q].repeat => (rcalls[q].classify = 0 /\ rcalls[q].spawn = 0)

\* C8 (amended): the recommend path keeps no memo: also a request for a text
\* that was already answered sends its own classifier request and, once that
\* has settled, has started its own subprocess.
C8_RecomputedEveryTime ==
    \A q \in RecReqs :
        rcalls[q].repeat =>
            /\ rcalls[q].classify = 1
            /\ (rpc[q] \in {"python", "fallback", "responded"} => rcalls[q].spawn = 1)

C8_Witness ==
    \E q \in RecReqs :
        /\ rcalls[q].repeat
        /\ rpc[q] = "responded"
        /\ rresponse[q][1].status = 200
        /\ rcalls[q].spawn = 1

\* C9: every analyzeSentiment call that waits for the mood service eventually
\* settles, whatever the service does.
C9_AlwaysSettles ==
    \A r \in Reqs : (pc[r] \in {"health", "analyze"}) ~> (pc[r] = "responded")

C9_Witness ==
    \E r \in Reqs :
        /\ pc[r] = "responded"
        /\ result[r] = Rejected(ErrAnalyzeFailed)
        /\ calls[r].analyze = 1
        /\ svc = "silent"

\* C10 (as stated): within one request the mood text is handed to a mood
\* analysis at most once: after the classifier request no fallback run
\* receives the raw text.
C10_SingleAttempt ==
    /\ \A r \in Reqs : calls[r].analyze <= 1
    /\ \A q \in RecReqs : rcalls[q].classify + rcalls[q].fallback <= 1

\* C10 (amended): within one request the mood service is sent at most one
\* health check and one /analyze request; analyzeSentiment tries nothing else
\* after a failure, runPythonScript starts the fallback script with the raw
\* text exactly when its classifier request has failed.
C10_ClassifierContactedOnce ==
    /\ \A r \in Reqs :
          /\ calls[r].health <= 1
          /\ calls[r].analyze <= 1
          /\ (pc[r] = "analyze" => calls[r].analyze = 1)
    /\ \A q \in RecReqs :
          /\ rcalls[q].classify <= 1
          /\ rcalls[q].spawn <= 1
          /\ rcalls[q].fallback = IF ClassifierFailed(q) THEN 1 ELSE 0

C10_Witness ==
    /\ \E r \in Reqs :
          /\ pc[r] = "responded"
          /\ result[r] = Rejected(ErrAnalyzeFailed)
          /\ calls[r].analyze = 1
    /\ \E q \in RecReqs : rpc[q] = "responded" /\ rcalls[q].fallback = 1

----------------------------------------------------------------------------
(* Properties of the audio targets *)

TargetField ==
    [ valence |-> "target_valence", energy |-> "target_energy",
      danceability |-> "target_danceability", tempo |-> "target_tempo",
      loudness |-> "target_loudness", acousticness |-> "target_acousticness" ]

UnitFeatures == {"valence", "energy", "danceability", "acousticness"}

InUnitInterval(v) == v.kind = "number" /\ 0 <= v.n /\ v.n <= 1000

\* what the analysis supplies for feature f
Supplied(f) ==
    IF analysis[1].audio_targets = Undef THEN Undef ELSE analysis[1].audio_targets[1][f]

----------------------------------------------------------------------------
(* Properties of the recommend result *)

\* recommend request q has been answered successfully
Answered(q) == rpc[q] = "responded" /\ rresponse[q][1].status = 200

\* C12: every successful answer of the recommend path carries
\* `recommendations` that is a list of tracks, also when the recommender
\* subprocess failed after the mood analysis had succeeded.
C12_RecommendationsIsList ==
    \A q \in RecReqs :
        Answered(q) =>
            /\ rresponse[q][1].body.recommendations # Undef
            /\ rresponse[q][1].body.recommendations[1].kind = "list"

\* what the subprocess of request q printed, if it printed valid JSON
Printed(q) == rcalls[q].printed

PrintedEmptyList(q) ==
    Printed(q) # Undef /\ Printed(q)[1].recommendations = Some(List(<< >>))

----------------------------------------------------------------------------
(* Properties of the start-up scripts *)

\* the Python service could not be spawned, or exited with a non-zero code
\* before it reported ready
PythonFailedEarly ==
    /\ ~pythonReady
    /\ \/ pythonService = "errored"
       \/ pythonService = "exited" /\ pythonExit # Some("0")

\* C14 (as stated): when the Python mood service cannot be spawned or exits
\* with a non-zero code before reporting ready, startNodeServer is never
\* invoked.
C14_StartupFailureAborts == PythonFailedEarly => nodeStarts = 0

\* C14 (amended): a start-up failure of the Python mood service does not abort
\* the start-up: once the service could not be spawned or has exited with a
\* non-zero code before reporting ready, startNodeServer has been invoked,
\* and the handler of that event invokes it in the same turn.
C14_StartsWithoutPythonService ==
    /\ [](PythonFailedEarly => nodeStarts >= 1)
    /\ [][ ( /\ ~pythonReady'
             /\ \/ pythonService # "errored" /\ pythonService' = "errored"
                \/ pythonExit = Undef /\ pythonExit' \in {Some("1"), Some("null")} )
           => nodeStarts' = nodeStarts + 1 ]_vars

C14_Witness ==
    /\ PythonFailedEarly
    /\ pythonService = "errored"
    /\ pythonExit = Undef
    /\ nodeStarts = 1

\* C15: in the two-service start script app.js is spawned only while the
\* Python mood service is up, never before it has come up and never after it
\* has failed.
C15_NodeOnlyAfterPythonUp ==
    starterNode # Undef => starterNode[1].python = "up"

----------------------------------------------------------------------------
(* Properties of analyzeSentiment *)

\* the call of r has settled
Settled(r) == pc[r] \in {"responded", "settled"}

CompleteResults ==
    { [ sentiment_score |-> raw.sentiment_score,
        confidence |-> raw.confidence,
        primary_emotion |-> raw.primary_emotion,
        score |-> raw.sentiment_score,
        label |-> raw.primary_emotion,
        ultra_advanced |-> TRUE,
        method |-> "ultra_advanced_ai",
        accuracy_level |-> "95%+" ] : raw \in ClassifierResults }

KeyOfText(t) == <<"m", "o", "o", "d", ":">> \o NormalizedText(t)

\* C17: under every interleaving of concurrent analyzeSentiment calls and
\* clearCache calls, a cache read returns a miss or exactly a complete result
\* that a successful classifier call stored for a text normalizing to the
\* key that is read: every entry is a complete result under the key of the
\* text it was computed for, an entry is only written by the call that
\* obtained its value from the classifier, and a hit returns the entry of the
\* caller's own key.
C17_ConcurrentCacheSafe ==
    /\ [](\A k \in DOMAIN cache :
            /\ cache[k].v \in CompleteResults
            /\ k = KeyOfText(cache[k].srcText))
    /\ [][ /\ \A k \in DOMAIN cache' :
                 (k \notin DOMAIN cache \/ cache'[k] # cache[k]) =>
                    \E r \in Reqs :
                       /\ StoreOf(r)
                       /\ calls[r].analyze = 1
                       /\ k = KeyOfText(text[r])
                       /\ cache'[k].srcText = text[r]
                       /\ result'[r] = Resolved(cache'[k].v)
           /\ \A r \in Reqs :
                 (StartOf(r) /\ pc'[r] = "responded") =>
                    /\ KeyOfText(text'[r]) \in DOMAIN cache
                    /\ result'[r] = Resolved(cache[KeyOfText(text'[r])].v)
         ]_vars

C17_Witness ==
    \E r \in Reqs, r2 \in Reqs :
        /\ r # r2
        /\ pc[r] = "responded"
        /\ calls[r].lookup = "hit"
        /\ pc[r2] = "analyze"
        /\ text[r2] # text[r]
        /\ cacheKey(text[r2]) = cacheKey(text[r])
        /\ Cardinality(DOMAIN cache) = 2

\* POST /api/mood/analyze of r has been answered successfully
AnalyzeAnswered(r) == Settled(r) /\ response[r][1].status = 200

C19_RecommendAlwaysSettles ==
    \A q \in RecReqs : (rpc[q] \in {"python", "fallback"}) ~> (rpc[q] = "responded")

----------------------------------------------------------------------------
(* Properties of createMoodPlaylist *)

\* the URIs input track t can contribute
UrisOfTrack(t) ==
    IF t.id # Undef
    THEN { IF t.id[1][1] = SpotifyPrefix THEN t.id[1] ELSE <<SpotifyPrefix>> \o t.id[1] }
    ELSE IF t.kind = "object" /\ t.name # Undef
    THEN { <<SpotifyPrefix, "found", t.name[1]>> }
    ELSE { }

\* uris lists, in the order of the tracks, one URI each of some of the tracks
InTrackOrder(uris, ts) ==
    \E f \in [1..Len(uris) -> 1..Len(ts)] :
        /\ \A j \in 1..Len(uris) : uris[j] \in UrisOfTrack(ts[f[j]])
        /\ \A j, k \in 1..Len(uris) : j < k => f[j] < f[k]

\* the tracks that carry their id
Direct(ts) == {i \in 1..Len(ts) : ts[i].id # Undef}

\* C20: the track URIs that createMoodPlaylist hands to createPlaylistForMood
\* are in the relative order of the tracks it received, every track
\* contributing at most one URI and a track that carries its id exactly one;
\* tracks that cannot be resolved are left out.  The same holds for the list
\* while it is built.
C20_TrackOrderKept ==
    /\ InTrackOrder(trackUris, SubSeq(mpTracks, 1, mpI - 1))
    /\ Len(trackUris) >= Cardinality(Direct(SubSeq(mpTracks, 1, mpI - 1)))
    /\ (mpCreated # Undef =>
          /\ mpCreated[1] = trackUris
          /\ mpI = Len(mpTracks) + 1
          /\ InTrackOrder(mpCreated[1], mpTracks))

C20_Witness ==
    /\ mpCreated # Undef
    /\ Len(mpTracks) = 3
    /\ mpTracks[1].id = Undef
    /\ mpTracks[2].name = Some("d")
    /\ mpTracks[3].kind = "string"
    /\ mpCreated[1] = <<foundUri(mpTracks[2]), toUri(mpTracks[3].id[1])>>

----------------------------------------------------------------------------
(* Properties of analyzeMoodSentiment *)

\* C21: the score in every successful response of POST /api/mood/analyze lies
\* in [-1,1], whatever number the classifier gave as sentiment_score: a score
\* within the range is passed on, one below it becomes -1, one above it 1, and
\* a missing one 0.
C21_ScoreClamped ==
    analyzeOutput # Undef =>
        LET given == analyzeInput[1].sentiment_score
            score == analyzeOutput[1].body.score
        IN /\ analyzeOutput[1].status = 200
           /\ -1000 <= score /\ score <= 1000
           /\ (given = Undef => score = 0)
           /\ (given # Undef /\ given[1] < -1000 => score = -1000)
           /\ (given # Undef /\ given[1] > 1000 => score = 1000)
           /\ (given # Undef /\ -1000 <= given[1] /\ given[1] <= 1000 => score = given[1])

C21_Witness ==
    /\ analyzeOutput # Undef
    /\ analyzeInput[1].sentiment_score = Some(7000)
    /\ analyzeOutput[1].body.score = 1000

----------------------------------------------------------------------------
(* Properties of getUserPreferenceTracks *)

\* C22: getUserPreferenceTracks is read-only and total.  Every call settles
\* by returning, never by throwing, a sequence of at most 5 rows of the user
\* it was called for; the sequence is empty when getOrCreateUserUUID or the
\* query fails or the query carries no data, and otherwise it lists the
\* user's most recently updated rows, newest first.  No step of the call
\* changes the table.
C22_ReadOnlyTotal ==
    /\ [](pfPc = "returned" =>
            /\ pfResult # Undef
            /\ pfResult[1].ok
            /\ Len(pfResult[1].value) <= 5
            /\ \A i \in 1..Len(pfResult[1].value) :
                  pfResult[1].value[i].user_id = pfUser[1]
            /\ (pfOutcome # "rows" => pfResult[1].value = << >>))
    /\ [][ pfPc' # pfPc =>
             /\ preferenceTracks' = preferenceTracks
             /\ (pfPc' = "returned" /\ pfOutcome' = "rows" =>
                   LET rows == pfResult'[1].value
                       n == preferenceTracks[pfUser[1]]
                   IN /\ Len(rows) = Min(5, n)
                      /\ \A i \in 1..Len(rows) : rows[i].updated_at = n - i + 1)
         ]_vars

C22_Witness ==
    /\ pfPc = "returned"
    /\ pfOutcome = "rows"
    /\ preferenceTracks[pfUser[1]] = 6
    /\ Len(pfResult[1].value) = 5
    /\ pfResult[1].value[1].updated_at = 6

----------------------------------------------------------------------------
(* Properties of the production start-up script *)

\* C23: in one run of the production start-up script startNodeServer is
\* invoked at most once, whatever the order of the Python service's events
\* and the 15 s timer.
C23_NodeStartedAtMostOnce == nodeStarts <= 1

\* C24: on every execution path of the production start-up script
\* startNodeServer is eventually invoked.
C24_NodeEventuallyStarted == <>(nodeStarts >= 1)

C24_Witness ==
    /\ nodeStarts = 1
    /\ pythonService = "running"
    /\ ~pythonReady
    /\ fallbackTimer = "fired"

\* C25: when the script exits with code 0 after a signal, no child it spawned
\* is left running without having been sent SIGTERM, neither the Python
\* service nor any `node app.js`.
C25_EveryChildTerminated ==
    script = "exit0" =>
        /\ (pythonService = "running" => pythonSigterm)
        /\ \A i \in 1..Len(nodeServers) : nodeServers[i] # "running"

----------------------------------------------------------------------------
(* Properties of the cache writes of analyzeSentiment *)

\* the step in which the call of r is rejected
RejectOf(r) == pc[r] \in {"health", "analyze"} /\ pc'[r] = "responded" /\ ~result'[r].ok

\* the cache holds an entry for key k that has not expired
Live(k) == k \in DOMAIN cache /\ ~Expired(cache[k])

\* C26: only successful classifications are cached.  An entry is written
\* only by a call whose health check passed and whose /analyze request
\* returned a result, and every such call writes its result under its key; a
\* call whose health check or /analyze request fails is rejected and leaves
\* the cache as it is; a call that finds no live entry under its key
\* contacts the mood service.
C26_OnlySuccessesCached ==
    [][ /\ \A k \in DOMAIN cache' :
              (k \notin DOMAIN cache \/ cache'[k] # cache[k]) =>
                 \E r \in Reqs :
                    /\ StoreOf(r)
                    /\ calls[r].health = 1
                    /\ calls[r].analyze = 1
                    /\ k = cacheKey(text[r])
        /\ \A r \in Reqs :
              /\ (StoreOf(r) =>
                    /\ cacheKey(text[r]) \in DOMAIN cache'
                    /\ cache'[cacheKey(text[r])].v = result'[r].value
                    /\ cache'[cacheKey(text[r])].insertedAt = now)
              /\ (RejectOf(r) => cache' = cache)
              /\ (StartOf(r) /\ ~Live(cacheKey(text'[r])) =>
                    /\ pc'[r] = "health"
                    /\ calls'[r].health = 1)
      ]_vars

C26_Witness ==
    \E r \in Reqs, r2 \in Reqs :
        /\ pc[r] = "responded"
        /\ result[r] = Rejected(ErrAnalyzeFailed)
        /\ pc[r2] = "health"
        /\ calls[r2].lookup = "absent"
        /\ cacheKey(text[r2]) = cacheKey(text[r])
        /\ cacheKey(text[r]) \notin DOMAIN cache
        /\ cache # << >>


\* C27 (as stated): among the requests whose texts normalize to one key, on a
\* cache that was never cleared and within one TTL window, at most one sends
\* an /analyze request, also when they arrive together on the empty cache.
\* (While the clock stands at 0 and the cache is empty and not flushed, no
\* clearCache has run and nothing has expired.)
C27_NoDuplicateClassification ==
    \A r \in Reqs, r2 \in Reqs :
        ( /\ r # r2
          /\ now = 0 /\ ~cleared /\ cache = << >>
          /\ pc[r] # "idle" /\ pc[r2] # "idle"
          /\ cacheKey(text[r]) = cacheKey(text[r2]) )
        => calls[r].analyze + calls[r2].analyze <= 1

\* C27 (amended): a request sends at most one /analyze request, and none when
\* it finds a live entry under its key; a stored result is live at once, so
\* requests for the key that start after the store, within the TTL and with
\* no clearCache, send nothing.  Requests that start before a result for
\* their key is stored, or after a failed one, each send their own /analyze
\* request once their health check has passed, whatever the cache holds by
\* then.
C27_OncePerMissingEntry ==
    /\ [](\A r \in Reqs : calls[r].analyze <= 1)
    /\ [][\A r \in Reqs :
             /\ (StartOf(r) /\ Live(cacheKey(text'[r])) =>
                   /\ pc'[r] = "responded"
                   /\ calls'[r].health = 0
                   /\ calls'[r].analyze = 0)
             /\ (StoreOf(r) =>
                   /\ cacheKey(text[r]) \in DOMAIN cache'
                   /\ cache'[cacheKey(text[r])].t > now)
             /\ (pc[r] = "health" /\ pc'[r] \in {"analyze", "responded"} =>
                   (calls'[r].analyze = 1 <=> pc'[r] = "analyze"))
          ]_vars

C27_Witness ==
    \E r \in Reqs, r2 \in Reqs :
        /\ r # r2
        /\ now = 0 /\ ~cleared /\ cache = << >>
        /\ pc[r] = "analyze" /\ pc[r2] = "analyze"
        /\ text[r] # text[r2]
        /\ cacheKey(text[r]) = cacheKey(text[r2])

----------------------------------------------------------------------------
(* Properties of logMood *)

\* C28: logMood calls the classifier exactly when the body carries no
\* sentiment_score; a supplied score, 0 included, is stored as it is without
\* any classifier call.
C28_ClassifierIffNoScore ==
    /\ (lmPc \in {"analyze", "insert"} =>
          (lmAnalyzed > 0 <=> lmBody[1].sentiment_score = Undef))
    /\ (lmRow # Undef /\ lmBody[1].sentiment_score # Undef =>
          /\ lmAnalyzed = 0
          /\ lmRow[1].sentimentScore = lmBody[1].sentiment_score[1])

----------------------------------------------------------------------------
(* Properties of generatePlaylist and its insert *)

\* the result of generateRecommendations carries recommendations or tracks
CarriesTracks(res) ==
    res.ok /\ (TruthyObj(res.value.recommendations) \/ TruthyObj(res.value.tracks))

\* C29: generatePlaylist sends exactly one response per request, none before
\* it is done; when generateRecommendations yields a result carrying
\* recommendations or tracks, the response is that result, unmodified, with
\* status 200, whether the insert into playlists stored the row or reported
\* an error.
C29_OneResponsePersistOptional ==
    /\ Len(gpSent) = IF gpPc = "done" THEN 1 ELSE 0
    /\ (gpPc = "done" /\ gpPlaylist # Undef /\ CarriesTracks(gpPlaylist[1]) =>
          /\ gpInsert \in {"data", "error"}
          /\ gpSent[1] = [status |-> 200, body |-> gpPlaylist[1].value]
          /\ (gpInsert = "error" => gpRow = Undef))
    /\ (gpPc = "done" /\ gpSent[1].status = 200 =>
          gpPlaylist # Undef /\ CarriesTracks(gpPlaylist[1]))

C29_Witness ==
    /\ gpPc = "done"
    /\ gpInsert = "error"
    /\ gpRow = Undef
    /\ gpSent = <<[status |-> 200, body |-> gpPlaylist[1].value]>>
    /\ gpPlaylist[1].value.recommendations = Some(List(TrackList))

----------------------------------------------------------------------------
(* Properties of createMoodPlaylist's failure handling *)

\* the track cannot be resolved without a search
NeedsSearch(t) == t.id = Undef /\ t.kind = "object" /\ t.name # Undef

Unresolvable(t) == t.id = Undef /\ ~NeedsSearch(t)

\* C30: a track that cannot be resolved (missing fields, search miss, search
\* error) is skipped and the loop goes on with the next track: no track ends
\* the request, and every track is processed before createPlaylistForMood is
\* called.  createPlaylistForMood is never called with an empty list of URIs;
\* when no track resolves the answer is 400, createPlaylistForMood is not
\* called and no user_playlists row is inserted.
C30_NoEmptyPlaylist ==
    /\ [](/\ (mpCreated # Undef =>
                /\ mpCreated[1] # << >>
                /\ mpI = Len(mpTracks) + 1)
          /\ (mpInserted > 0 => mpCreated # Undef /\ mpResponse = Some([status |-> 200]))
          /\ (mpPc = "done" /\ trackUris = << >> =>
                /\ mpResponse = Some([status |-> 400])
                /\ mpCreated = Undef
                /\ mpInserted = 0))
    /\ [][ (mpPc \in {"loop", "search"} /\ mpI <= Len(mpTracks)) =>
               /\ mpPc' \in {"loop", "search"}
               /\ mpResponse' = Undef
               /\ (mpPc' = "loop" => mpI' = mpI + 1)
               /\ (mpPc = "loop" /\ Unresolvable(mpTracks[mpI]) => trackUris' = trackUris)
               /\ Len(trackUris') >= Len(trackUris)
         ]_vars

C30_Witness ==
    /\ mpPc = "done"
    /\ mpResponse = Some([status |-> 200])
    /\ mpInserted = 1
    /\ Len(mpTracks) = 3
    /\ Unresolvable(mpTracks[1])
    /\ NeedsSearch(mpTracks[2])
    /\ mpCreated = Some(<<toUri(mpTracks[3].id[1])>>)

====
